---- MODULE Spec2Model ----
(***************************************************************************)
(* Model of the code-structure triad of lollopanta/pantacode:              *)
(*   CodeStructureService (structure indexer, debounced snapshots),        *)
(*   CodeGraphService     (intra-file call graph, caller/callee indexes),  *)
(*   CodeHistoryService   (per-file append-only symbol history).           *)
(*                                                                         *)
(* A JavaScript string is a sequence of one-character strings.  A JS Map   *)
(* whose iteration order is never used is a function whose DOMAIN is the   *)
(* set of keys present; `undefined` for a string is the empty sequence.    *)
(***************************************************************************)
EXTENDS Integers, Sequences, FiniteSets, TLC

(***************************************************************************)
(* Characters and strings                                                  *)
(***************************************************************************)
LF == "\n"
CR == "\r"

Lower == {"a","b","c","d","e","f","g","h","i","j","k","l","m",
          "n","o","p","q","r","s","t","u","v","w","x","y","z"}
Upper == {"A","B","C","D","E","F","G","H","I","J","K","L","M",
          "N","O","P","Q","R","S","T","U","V","W","X","Y","Z"}
DigitChars == <<"0","1","2","3","4","5","6","7","8","9">>
Digits == {DigitChars[i] : i \in 1..10}

\* the regex class [A-Za-z0-9_$]
IsIdentChar(c) == c \in Lower \cup Upper \cup Digits \cup {"_", "$"}
\* the regex class \w, which decides \b
IsWordChar(c) == c \in Lower \cup Upper \cup Digits \cup {"_"}
\* the regex class \s
IsSpace(c) == c \in {" ", "\t", LF, CR}

Undefined == << >>

Min(S) == CHOOSE x \in S : \A y \in S : x <= y

RECURSIVE ToStr(_)
\* `${lineNumber}`: decimal digits of a non-negative integer
ToStr(n) == IF n < 10 THEN <<DigitChars[n + 1]>>
            ELSE ToStr(n \div 10) \o <<DigitChars[(n % 10) + 1]>>

\* s.startsWith(w, i - 1), with i a 1-based index
StartsWith(s, i, w) ==
    /\ i >= 1
    /\ i + Len(w) - 1 <= Len(s)
    /\ \A k \in 1..Len(w) : s[i + k - 1] = w[k]

\* s.indexOf(w): 0-based index of the first occurrence, -1 when there is none
IndexOf(s, w) ==
    LET hits == {i \in 1..(Len(s) + 1) : StartsWith(s, i, w)}
    IN  IF hits = {} THEN -1 ELSE Min(hits) - 1

\* first index j >= i that is past the end of s or holds no whitespace (\s*)
SkipWs(s, i) == Min({j \in i..(Len(s) + 1) : j = Len(s) + 1 \/ ~IsSpace(s[j])})

\* first index j >= i that is past the end of s or holds no identifier character
IdentEnd(s, i) == Min({j \in i..(Len(s) + 1) : j = Len(s) + 1 \/ ~IsIdentChar(s[j])})

\* the group (w\s+) tried at index i: the index after it, or 0 when it fails
TakeKw(s, i, w) ==
    IF StartsWith(s, i, w) /\ i + Len(w) <= Len(s) /\ IsSpace(s[i + Len(w)])
    THEN SkipWs(s, i + Len(w))
    ELSE 0

\* an optional group (w\s+)? in a regex whose continuation cannot match where
\* w starts: taking the group whenever it matches is the only way to match
OptKw(s, i, w) == LET t == TakeKw(s, i, w) IN IF t # 0 THEN t ELSE i

W_export == <<"e","x","p","o","r","t">>
W_abstract == <<"a","b","s","t","r","a","c","t">>
W_class == <<"c","l","a","s","s">>
W_async == <<"a","s","y","n","c">>
W_function == <<"f","u","n","c","t","i","o","n">>
W_public == <<"p","u","b","l","i","c">>
W_private == <<"p","r","i","v","a","t","e">>
W_protected == <<"p","r","o","t","e","c","t","e","d">>
W_static == <<"s","t","a","t","i","c">>

\* ([A-Za-z0-9_$]+) at index i: the captured name, or Undefined
IdentAt(s, i) == LET e == IdentEnd(s, i) IN IF e > i THEN SubSeq(s, i, e - 1) ELSE Undefined

\* /^\s*(export\s+)?(mod\s+)?kw\s+([A-Za-z0-9_$]+)/.exec(line): group 3
declMatch(line, mod, kw) ==
    LET p == SkipWs(line, 1)
        q == TakeKw(line, OptKw(line, OptKw(line, p, W_export), mod), kw)
    IN  IF q = 0 THEN Undefined ELSE IdentAt(line, q)

\* /^\s*(export\s+)?(abstract\s+)?class\s+([A-Za-z0-9_$]+)/.exec(line): group 3
classMatch(line) == declMatch(line, W_abstract, W_class)

\* /^\s*(export\s+)?(async\s+)?function\s+([A-Za-z0-9_$]+)/.exec(line): group 3
functionMatch(line) == declMatch(line, W_async, W_function)

\* ([A-Za-z0-9_$]+)\s*\( at index i: the captured name, or Undefined
MethodTail(line, i) ==
    LET e == IdentEnd(line, i)
        o == SkipWs(line, e)
    IN  IF i >= 1 /\ e > i /\ o <= Len(line) /\ line[o] = "("
        THEN SubSeq(line, i, e - 1) ELSE Undefined

\* one optional group of the method regex tried at index i (0: already
\* failed): taken, the index after one of the words ws followed by \s+, or 0;
\* skipped, i
GroupAt(line, i, take, ws) ==
    IF i = 0 \/ ~take THEN i
    ELSE LET ends == [k \in DOMAIN ws |-> TakeKw(line, i, ws[k])]
             hit == {k \in DOMAIN ws : ends[k] # 0}
         IN  IF hit = {} THEN 0 ELSE ends[Min(hit)]

\* the ways to take or skip the three optional groups, in the order a
\* backtracking engine tries them: take first, the last group undone first
GroupChoices ==
    << <<TRUE, TRUE, TRUE>>, <<TRUE, TRUE, FALSE>>, <<TRUE, FALSE, TRUE>>,
       <<TRUE, FALSE, FALSE>>, <<FALSE, TRUE, TRUE>>, <<FALSE, TRUE, FALSE>>,
       <<FALSE, FALSE, TRUE>>, <<FALSE, FALSE, FALSE>> >>

\* /^\s*(public\s+|private\s+|protected\s+)?(static\s+)?(async\s+)?([A-Za-z0-9_$]+)\s*\(/
\* .exec(line): group 4
methodMatch(line) ==
    LET p == SkipWs(line, 1)
        start(c) == GroupAt(line,
                        GroupAt(line,
                            GroupAt(line, p, c[1], <<W_public, W_private, W_protected>>),
                            c[2], <<W_static>>),
                        c[3], <<W_async>>)
        names == [k \in DOMAIN GroupChoices |->
                     LET i == start(GroupChoices[k])
                     IN  IF i = 0 THEN Undefined ELSE MethodTail(line, i)]
        hit == {k \in DOMAIN names : names[k] # Undefined}
    IN  IF hit = {} THEN Undefined ELSE names[Min(hit)]

\* /^\s*$/.test(line)
isBlank(line) == SkipWs(line, 1) = Len(line) + 1

(***************************************************************************)
(* The text buffer (external collaborator).  A text is its characters      *)
(* followed by `pad` spaces: the run of trailing spaces is kept as a count *)
(* so that a document above the scan ceiling is representable.             *)
(***************************************************************************)
\* ITextModel.getValueLength()
getValueLength(text) == Len(text.chars) + text.pad

RECURSIVE SplitFrom(_, _, _)
\* text.split(/\r\n|\r|\n/) from index i with the current line starting at b
SplitFrom(s, i, b) ==
    IF i > Len(s) THEN <<SubSeq(s, b, Len(s))>>
    ELSE IF s[i] = CR /\ i < Len(s) /\ s[i + 1] = LF
         THEN <<SubSeq(s, b, i - 1)>> \o SplitFrom(s, i + 2, i + 2)
    ELSE IF s[i] = CR \/ s[i] = LF
         THEN <<SubSeq(s, b, i - 1)>> \o SplitFrom(s, i + 1, i + 1)
    ELSE SplitFrom(s, i + 1, b)

\* the lines of a text, without the trailing pad
splitLines(text) == SplitFrom(text.chars, 1, 1)

\* ITextModel.getPositionAt(offset), offset 0-based and inside text.chars
getPositionAt(text, offset) ==
    LET s == text.chars
        breaks == {i \in 1..offset : s[i] = LF \/ (s[i] = CR /\ ~(i < Len(s) /\ s[i + 1] = LF))}
        lineStart == IF breaks = {} THEN 0 ELSE CHOOSE i \in breaks : \A j \in breaks : j <= i
    IN  [lineNumber |-> Cardinality(breaks) + 1, column |-> offset - lineStart + 1]

(***************************************************************************)
(* CodeStructureService: extraction                                        *)
(***************************************************************************)
KindFile == "File"
KindClass == "Class"
KindMethod == "Method"
KindFunction == "Function"

\* new Range(startLineNumber, startColumn, endLineNumber, endColumn)
Range(sl, sc, el, ec) ==
    [startLineNumber |-> sl, startColumn |-> sc, endLineNumber |-> el, endColumn |-> ec]

\* buildSymbolId with the first character of the name for the name: two
\* names of one initial on one line get one id.  C32_NoSymbolChanged tells
\* it from buildSymbolId.
buildSymbolId_initial(uri, name, lineNumber) ==
    uri \o <<":", ":">> \o SubSeq(name, 1, 1) \o <<"@">> \o ToStr(lineNumber)

\* buildSymbolId without the name: the id tells the file and the line only.
\* C31_DistinctIds tells it from buildSymbolId.
buildSymbolId_noName(uri, name, lineNumber) ==
    uri \o <<":", ":">> \o <<"@">> \o ToStr(lineNumber)

\* buildSymbolId without the line number: two declarations of one name on
\* different lines get one id.  C18_StableIds tells it from buildSymbolId.
buildSymbolId_noLine(uri, name, lineNumber) ==
    uri \o <<":", ":">> \o name

\* `${uri.toString()}::${name}@${lineNumber}`
buildSymbolId(uri, name, lineNumber) ==
    uri \o <<":", ":">> \o name \o <<"@">> \o ToStr(lineNumber)

\* basename(uri): the characters after the last "/"
basename(uri) ==
    LET slashes == {i \in 1..Len(uri) : uri[i] = "/"}
    IN  IF slashes = {} THEN uri
        ELSE SubSeq(uri, (CHOOSE i \in slashes : \A j \in slashes : j <= i) + 1, Len(uri))

\* the symbol literal of the class, function and method branches; metrics is
\* an optional value: << >> when undefined, <<[loc |-> n]>> otherwise
LineSymbol(uri, line, lineNumber, name, idName, kind, containerId) ==
    LET nameColumn == IndexOf(line, name) + 1
        range == Range(lineNumber, nameColumn, lineNumber, nameColumn + Len(name))
    IN  [id |-> buildSymbolId(uri, idName, lineNumber),
         name |-> name,
         kind |-> kind,
         uri |-> uri,
         range |-> range,
         selectionRange |-> range,
         containerId |-> containerId,
         metrics |-> << >>]

\* symbols.push(symbol) of one turn of the loop over lines, and the enclosing
\* class id after it (currentClassId = id in the class branch only)
pushed(symbol, isClass, currentClassId) ==
    [push |-> <<symbol>>,
     currentClassId |-> IF isClass THEN symbol.id ELSE currentClassId]

\* a loop turn in which a function declaration ends the enclosing class.
\* C21_EnclosingClass tells it from scanMatched.
scanMatched_functionResets(uri, line, lineNumber, currentClassId, c, f, m) ==
    IF c # Undefined
    THEN pushed(LineSymbol(uri, line, lineNumber, c, c, KindClass, Undefined),
                TRUE, currentClassId)
    ELSE IF f # Undefined
    THEN pushed(LineSymbol(uri, line, lineNumber, f, f, KindFunction, Undefined),
                FALSE, Undefined)
    ELSE IF m # Undefined /\ currentClassId # Undefined
    THEN pushed(LineSymbol(uri, line, lineNumber, m, m \o <<"@">> \o currentClassId,
                           KindMethod, currentClassId),
                FALSE, currentClassId)
    ELSE [push |-> << >>,
          currentClassId |-> IF isBlank(line) THEN Undefined ELSE currentClassId]

\* one turn of the loop over lines of buildSnapshot, given the results of the
\* three regexes on the line
scanMatched(uri, line, lineNumber, currentClassId, c, f, m) ==
    IF c # Undefined
    THEN pushed(LineSymbol(uri, line, lineNumber, c, c, KindClass, Undefined),
                TRUE, currentClassId)
    ELSE IF f # Undefined
    THEN pushed(LineSymbol(uri, line, lineNumber, f, f, KindFunction, Undefined),
                FALSE, currentClassId)
    ELSE IF m # Undefined /\ currentClassId # Undefined
    THEN pushed(LineSymbol(uri, line, lineNumber, m, m \o <<"@">> \o currentClassId,
                           KindMethod, currentClassId),
                FALSE, currentClassId)
    ELSE [push |-> << >>,
          currentClassId |-> IF isBlank(line) THEN Undefined ELSE currentClassId]

\* one turn of the loop over lines of buildSnapshot: the symbol pushed, if
\* any, and the enclosing class id after the line
scanLine(uri, line, lineNumber, currentClassId) ==
    scanMatched(uri, line, lineNumber, currentClassId,
                classMatch(line), functionMatch(line), methodMatch(line))

RECURSIVE ScanLines(_, _, _, _)
\* the loop over lines of buildSnapshot, from 1-based line i, with the
\* current enclosing class id as loop state
ScanLines(uri, lines, i, currentClassId) ==
    IF i > Len(lines) THEN << >>
    ELSE LET r == scanLine(uri, lines[i], i, currentClassId)
         IN  r.push \o ScanLines(uri, lines, i + 1, r.currentClassId)

W_fileTag == <<"<","f","i","l","e",">">>

\* a File symbol that ends at the last line's length, one column short of
\* its end.  C19_FileSymbol tells it from fileSymbol.
fileSymbol_lastLength(uri, text) ==
    [id |-> buildSymbolId(uri, W_fileTag, 1),
     name |-> basename(uri),
     kind |-> KindFile,
     uri |-> uri,
     range |-> Range(1, 1, Len(splitLines(text)),
                     Len(splitLines(text)[Len(splitLines(text))]) + text.pad),
     selectionRange |-> Range(1, 1, 1, 1),
     containerId |-> Undefined,
     metrics |-> <<[loc |-> Len(splitLines(text))]>>]

\* the synthetic File symbol; the last line carries the text's trailing pad
fileSymbol(uri, text) ==
    LET lines == splitLines(text)
    IN  [id |-> buildSymbolId(uri, W_fileTag, 1),
         name |-> basename(uri),
         kind |-> KindFile,
         uri |-> uri,
         range |-> Range(1, 1, IF Len(lines) > 1 THEN Len(lines) ELSE 1,
                         Len(lines[Len(lines)]) + text.pad + 1),
         selectionRange |-> Range(1, 1, 1, 1),
         containerId |-> Undefined,
         metrics |-> <<[loc |-> Len(lines)]>>]

\* CodeStructureService.buildSnapshot(model); createdAt (Date.now()) is left out
buildSnapshot(uri, languageId, version, text) ==
    [uri |-> uri,
     version |-> version,
     languageId |-> languageId,
     symbols |-> <<fileSymbol(uri, text)>> \o ScanLines(uri, splitLines(text), 1, Undefined)]

\* CodeStructureService.containsPosition / the three tests of findContainingSymbol
containsPosition(range, position) ==
    /\ ~(position.lineNumber < range.startLineNumber \/ position.lineNumber > range.endLineNumber)
    /\ ~(position.lineNumber = range.startLineNumber /\ position.column < range.startColumn)
    /\ ~(position.lineNumber = range.endLineNumber /\ position.column > range.endColumn)

(***************************************************************************)
(* JS Maps as functions: Map.get / Map.set / Map.delete                    *)
(***************************************************************************)
EmptyMap == << >>
Has(m, k) == k \in DOMAIN m
Put(m, k, v) == [x \in (DOMAIN m) \cup {k} |-> IF x = k THEN v ELSE m[x]]
Delete(m, k) == [x \in (DOMAIN m) \ {k} |-> m[x]]
\* m.get(k) ?? []
GetOrEmpty(m, k) == IF Has(m, k) THEN m[k] ELSE << >>

\* the elements of a sequence
Elems(s) == {s[i] : i \in DOMAIN s}

RECURSIVE Flatten(_)
\* the concatenation of a sequence of sequences
Flatten(ss) == IF ss = << >> THEN << >> ELSE Head(ss) \o Flatten(Tail(ss))

(***************************************************************************)
(* CodeGraphService                                                        *)
(***************************************************************************)
MAX_FILE_LENGTH_FOR_SCAN == 200000

GraphEdgeKindCall == "Call"

\* \b at 1-based index i of s
WordBoundary(s, i) ==
    LET before == i > 1 /\ i - 1 <= Len(s) /\ IsWordChar(s[i - 1])
        after == i >= 1 /\ i <= Len(s) /\ IsWordChar(s[i])
    IN  before # after

\* the end (exclusive, 1-based) of a match of \bname\s*\( at index i, or 0
CallMatchEnd(s, name, i) ==
    LET o == SkipWs(s, i + Len(name))
    IN  IF StartsWith(s, i, name) /\ WordBoundary(s, i) /\ o <= Len(s) /\ s[o] = "("
        THEN o + 1
        ELSE 0

RECURSIVE CallMatches(_, _, _)
\* the loop `while (true) { match = regex.exec(text) ... }` of a global regex:
\* the 0-based match.index of every match, searching from 1-based index i
CallMatches(s, name, i) ==
    IF i > Len(s) THEN << >>
    ELSE LET e == CallMatchEnd(s, name, i)
         IN  (IF e # 0 THEN <<i - 1>> ELSE << >>)
             \o CallMatches(s, name, IF e # 0 THEN e ELSE i + 1)

\* CodeGraphService.findContainingSymbol: an optional symbol
findContainingSymbol(symbols, position) ==
    LET hits == {i \in DOMAIN symbols :
                    containsPosition(symbols[i].range, position) /\ symbols[i].kind # KindFile}
    IN  IF hits = {} THEN << >> ELSE <<symbols[Min(hits)]>>

\* the keys of symbolByName in Map insertion order
CalledNames(symbols) ==
    LET fm == SelectSeq(symbols, LAMBDA x : x.kind = KindFunction \/ x.kind = KindMethod)
        first == {i \in DOMAIN fm : \A j \in 1..(i - 1) : fm[j].name # fm[i].name}
    IN  [k \in 1..Cardinality(first) |->
            fm[CHOOSE i \in first : Cardinality({j \in first : j <= i}) = k].name]

\* `${fromSymbol.id}->${target.id}`
EdgeKey(from, to) == from \o <<"-", ">">> \o to

\* no `seen` set: every edge of every occurrence is kept.
\* C27_OneEdgePerCandidate tells it from DedupEdges.
DedupEdges_keepAll(edges, seen) == edges

RECURSIVE DedupEdges(_, _)
\* the `seen` set: keep the first edge of every key
DedupEdges(edges, seen) ==
    IF edges = << >> THEN << >>
    ELSE LET e == Head(edges)
             key == EdgeKey(e.from, e.to)
         IN  (IF key \in seen THEN << >> ELSE <<e>>)
             \o DedupEdges(Tail(edges), seen \cup {key})

\* CodeGraphService.computeIntraFileCallEdges(snapshot, model)
computeIntraFileCallEdges(snapshot, text) ==
    LET symbols == snapshot.symbols
        files == SelectSeq(symbols, LAMBDA x : x.kind = KindFile)
        names == CalledNames(symbols)
        candidates(name) ==
            SelectSeq(symbols, LAMBDA x : (x.kind = KindFunction \/ x.kind = KindMethod)
                                          /\ x.name = name)
        fromOf(offset) ==
            LET c == findContainingSymbol(symbols, getPositionAt(text, offset))
            IN  IF c # << >> THEN c ELSE IF files # << >> THEN <<files[1]>> ELSE << >>
        forMatch(name, offset) ==
            LET fromSymbol == fromOf(offset)
                targets == candidates(name)
            IN  IF fromSymbol = << >> THEN << >>
                ELSE [k \in DOMAIN targets |->
                         [from |-> fromSymbol[1].id,
                          to |-> targets[k].id,
                          kind |-> GraphEdgeKindCall]]
        forName(name) ==
            LET ms == CallMatches(text.chars, name, 1)
            IN  Flatten([k \in DOMAIN ms |-> forMatch(name, ms[k])])
    IN  DedupEdges(Flatten([n \in DOMAIN names |-> forName(names[n])]), {})

\* _symbolToFile is written by rebuildForUri and read nowhere: it is left out
EmptyGraph ==
    [fileGraphs |-> EmptyMap, outgoingEdges |-> EmptyMap, incomingEdges |-> EmptyMap]

RECURSIVE addEdges(_, _)
\* CodeGraphService.addEdges
addEdges(g, edges) ==
    IF edges = << >> THEN g
    ELSE LET edge == Head(edges)
         IN  addEdges([g EXCEPT
                 !.outgoingEdges = Put(@, edge.from, Append(GetOrEmpty(@, edge.from), edge)),
                 !.incomingEdges = Put(@, edge.to, Append(GetOrEmpty(@, edge.to), edge))],
               Tail(edges))

\* removeEdges that takes the edges out of the callee index and leaves the
\* caller index.  C29_IndexesMirror tells it from removeEdges.
removeEdges_outgoingOnly(g, edges) ==
    [g EXCEPT !.outgoingEdges =
        [id \in DOMAIN @ |-> SelectSeq(@[id], LAMBDA e : e \notin Elems(edges))]]

RECURSIVE removeEdges(_, _)
\* CodeGraphService.removeEdges.  `e !== edge` compares object identity; the
\* indexes never hold two edge objects with equal fields (NoTwinEdges), so
\* comparing the fields removes the same entries.
removeEdges(g, edges) ==
    IF edges = << >> THEN g
    ELSE LET edge == Head(edges)
         IN  removeEdges([g EXCEPT
                 !.outgoingEdges = IF Has(@, edge.from)
                                   THEN Put(@, edge.from, SelectSeq(@[edge.from], LAMBDA e : e # edge))
                                   ELSE @,
                 !.incomingEdges = IF Has(@, edge.to)
                                   THEN Put(@, edge.to, SelectSeq(@[edge.to], LAMBDA e : e # edge))
                                   ELSE @],
               Tail(edges))

\* CodeGraphService.getCallees / getCallers / getEdgesForFile
getCallees(g, symbolId) == GetOrEmpty(g.outgoingEdges, symbolId)
getCallers(g, symbolId) == GetOrEmpty(g.incomingEdges, symbolId)
getEdgesForFile(g, uri) == IF Has(g.fileGraphs, uri) THEN g.fileGraphs[uri].edges ELSE << >>

(***************************************************************************)
(* CodeHistoryService                                                      *)
(***************************************************************************)
SymbolAdded == "SymbolAdded"
SymbolRemoved == "SymbolRemoved"
SymbolChanged == "SymbolChanged"

W_Removed == <<"R","e","m","o","v","e","d"," ","s","y","m","b","o","l"," ">>
W_Added == <<"A","d","d","e","d"," ","s","y","m","b","o","l"," ">>
W_Renamed == <<"R","e","n","a","m","e","d"," ","s","y","m","b","o","l"," ">>
\* the source file holds three non-ASCII characters between the names; each
\* is written here by its code point
W_Arrow == <<" ","U+00E2","U+2020","U+2019"," ">>

\* a Map keyed by the name of the symbol instead of its id: a symbol that
\* keeps its name is the same entry wherever it is declared.
\* C26_MoveIsRemoveAdd tells it from idNameMap.
idNameMap_byName(symbols) ==
    LET first == {i \in DOMAIN symbols : \A j \in 1..(i - 1) : symbols[j].name # symbols[i].name}
        nth(k) == CHOOSE i \in first : Cardinality({j \in first : j <= i}) = k
    IN  [k \in 1..Cardinality(first) |->
            [id |-> symbols[nth(k)].name, name |-> symbols[nth(k)].name]]

\* a Map filled by `for (const symbol of symbols) map.set(symbol.id, {name})`,
\* in iteration order: a key keeps the place of its first set and the value
\* of its last
idNameMap(symbols) ==
    LET first == {i \in DOMAIN symbols : \A j \in 1..(i - 1) : symbols[j].id # symbols[i].id}
        nth(k) == CHOOSE i \in first : Cardinality({j \in first : j <= i}) = k
        lastOf(id) == CHOOSE i \in DOMAIN symbols :
                         /\ symbols[i].id = id
                         /\ \A j \in DOMAIN symbols : symbols[j].id = id => j <= i
    IN  [k \in 1..Cardinality(first) |->
            [id |-> symbols[nth(k)].id, name |-> symbols[lastOf(symbols[nth(k)].id)].name]]

\* map.has(id)
mapHas(m, id) == \E k \in DOMAIN m : m[k].id = id
\* map.get(id), for an id the map has
mapGet(m, id) == m[CHOOSE k \in DOMAIN m : m[k].id = id]

\* CodeHistoryService.createEvent without the id, which the caller numbers;
\* timestamp (Date.now()) is left out
createEvent(uri, symbolId, kind, summary, snapshotRef) ==
    [uri |-> uri, symbolId |-> symbolId, kind |-> kind,
     summary |-> summary, snapshot |-> snapshotRef]

\* computeDiffEvents without its first loop: the symbols that left the file
\* get no event.  C16_ExactDiff tells it from computeDiffEvents.
computeDiffEvents_noRemovals(previous, next, nextEventId) ==
    LET snapshotRef == [uri |-> next.uri, version |-> next.version]
        addedOf(e) ==
            IF ~mapHas(idNameMap(previous.symbols), e.id)
            THEN <<[id |-> "", uri |-> next.uri, symbolId |-> e.id, kind |-> SymbolAdded,
                    summary |-> W_Added \o e.name, snapshot |-> snapshotRef]>>
            ELSE << >>
        events == Flatten([k \in DOMAIN next.symbols |-> addedOf(next.symbols[k])])
    IN  [k \in DOMAIN events |-> [events[k] EXCEPT !.id = ToStr(nextEventId + k - 1)]]

\* computeDiffEvents with its two loops exchanged: the additions come before
\* the removals.  C17_RemovalsFirst tells it from computeDiffEvents.
computeDiffEvents_additionsFirst(previous, next, nextEventId) ==
    LET snapshotRef == [uri |-> next.uri, version |-> next.version]
        removedOf(e) ==
            IF ~mapHas(idNameMap(next.symbols), e.id)
            THEN <<[id |-> "", uri |-> next.uri, symbolId |-> e.id, kind |-> SymbolRemoved,
                    summary |-> W_Removed \o e.name, snapshot |-> snapshotRef]>>
            ELSE << >>
        addedOf(e) ==
            IF ~mapHas(idNameMap(previous.symbols), e.id)
            THEN <<[id |-> "", uri |-> next.uri, symbolId |-> e.id, kind |-> SymbolAdded,
                    summary |-> W_Added \o e.name, snapshot |-> snapshotRef]>>
            ELSE << >>
        events == Flatten([k \in DOMAIN next.symbols |-> addedOf(next.symbols[k])])
                  \o Flatten([k \in DOMAIN previous.symbols |-> removedOf(previous.symbols[k])])
    IN  [k \in DOMAIN events |-> [events[k] EXCEPT !.id = ToStr(nextEventId + k - 1)]]

\* CodeHistoryService.computeDiffEvents(previous, next); nextEventId is the
\* value of NEXT_EVENT_ID when the pass starts
computeDiffEvents(previous, next, nextEventId) ==
    LET prevById == idNameMap(previous.symbols)
        nextById == idNameMap(next.symbols)
        snapshotRef == [uri |-> next.uri, version |-> next.version]
        removedOf(e) ==
            IF ~mapHas(nextById, e.id)
            THEN <<createEvent(next.uri, e.id, SymbolRemoved, W_Removed \o e.name, snapshotRef)>>
            ELSE << >>
        addedOf(e) ==
            IF ~mapHas(prevById, e.id)
            THEN <<createEvent(next.uri, e.id, SymbolAdded, W_Added \o e.name, snapshotRef)>>
            ELSE IF mapGet(prevById, e.id).name # e.name
            THEN <<createEvent(next.uri, e.id, SymbolChanged,
                               W_Renamed \o mapGet(prevById, e.id).name \o W_Arrow \o e.name,
                               snapshotRef)>>
            ELSE << >>
        events == Flatten([k \in DOMAIN prevById |-> removedOf(prevById[k])])
                  \o Flatten([k \in DOMAIN nextById |-> addedOf(nextById[k])])
    IN  [k \in DOMAIN events |->
            [id |-> ToStr(nextEventId + k - 1),
             uri |-> events[k].uri,
             symbolId |-> events[k].symbolId,
             kind |-> events[k].kind,
             summary |-> events[k].summary,
             snapshot |-> events[k].snapshot]]

\* CodeHistoryService.getEventsForFile
getEventsForFile(perFile, uri) == IF Has(perFile, uri) THEN perFile[uri].events ELSE << >>

(***************************************************************************)
(* Bounds and inputs                                                       *)
(***************************************************************************)
\* a model's version id is capped: no content change past it
MaxVersion == 3
\* a pass that records events runs only while the history holds fewer than
\* this many events, over all files
MaxEvents == 1

Uris == {<<"/","a">>}
Languages == {"typescript", "plaintext"}

\* the texts a document may hold
Texts ==
    << [chars |-> <<"f","u","n","c","t","i","o","n"," ","a","(",")","{"," ","b","(",")",";"," ","}",LF,"f","u","n","c","t","i","o","n"," ","b","(",")","{","}">>, pad |-> 0],
       [chars |-> <<"f","u","n","c","t","i","o","n"," ","a","2","(",")","{"," ","b","(",")",";"," ","}",LF,"f","u","n","c","t","i","o","n"," ","b","(",")","{","}">>, pad |-> 0],
       [chars |-> <<"f","u","n","c","t","i","o","n"," ","a","(",")","{","}">>, pad |-> MAX_FILE_LENGTH_FOR_SCAN] >>
TextIds == DOMAIN Texts

\* more documents, for the specification of one open document below: the
\* empty one, a class with a method, a function on the second of three
\* lines, the last line empty, and the first of Texts under one more line
MoreTexts ==
    << [chars |-> << >>, pad |-> 0],
       [chars |-> <<"c","l","a","s","s"," ","C"," ","{",LF," "," ","m","(",")"," ","{","}",LF,"}">>, pad |-> 0],
       [chars |-> <<LF,"f","u","n","c","t","i","o","n"," ","a","(",")","{","}",LF>>, pad |-> 0],
       [chars |-> <<LF>> \o Texts[1].chars, pad |-> 0] >>
Documents == Texts \o MoreTexts
DocumentIds == DOMAIN Documents

(***************************************************************************)
(* State                                                                   *)
(***************************************************************************)
VARIABLES
    models,              \* IModelService: uri -> [languageId, versionId, value]
    snapshots,           \* CodeStructureService._snapshots
    recomputeSchedulers, \* CodeStructureService._recomputeSchedulers
    timers,              \* armed timeouts of the schedulers, per uri
    graph,               \* CodeGraphService: _fileGraphs, _outgoingEdges, _incomingEdges
    perFile,             \* CodeHistoryService._perFile
    NEXT_EVENT_ID,       \* the module-level event counter
    emitted              \* what the last handler fired (events) or cancelled (timeouts),
                         \* each with what a reader sees at that moment

vars == <<models, snapshots, recomputeSchedulers, timers, graph, perFile,
          NEXT_EVENT_ID, emitted>>

\* onDidUpdateSnapshot's listeners in registration order: the two services
\* subscribe when they are constructed, in an order the code does not fix
ListenerOrders == {<<"graph", "history">>, <<"history", "graph">>}

\* ITextModel.getValue()
getValue(model) == Documents[model.value]

\* buildSnapshot and computeIntraFileCallEdges over the documents of the
\* model, computed once: the same values as the operators give
snapshotTable ==
    [uri \in Uris, t \in DocumentIds |-> buildSnapshot(uri, "", 0, Documents[t]).symbols]
callEdgesTable ==
    [uri \in Uris, t \in DocumentIds |->
        computeIntraFileCallEdges([symbols |-> snapshotTable[uri, t]], Documents[t])]

\* a snapshot whose symbol ids carry the model's version: the same text
\* scanned twice gives different ids.  C22_Deterministic tells it from
\* modelSnapshot.
modelSnapshot_versionedIds(uri, model) ==
    [uri |-> uri, version |-> model.versionId, languageId |-> model.languageId,
     symbols |-> [k \in DOMAIN snapshotTable[uri, model.value] |->
                     [snapshotTable[uri, model.value][k] EXCEPT
                         !.id = @ \o <<"#">> \o ToStr(model.versionId)]]]

\* buildSnapshot(model)
modelSnapshot(uri, model) ==
    [uri |-> uri, version |-> model.versionId, languageId |-> model.languageId,
     symbols |-> snapshotTable[uri, model.value]]

\* computeIntraFileCallEdges(snapshot, model)
modelCallEdges(snapshot, uri, model) ==
    IF snapshot.symbols = snapshotTable[uri, model.value]
    THEN callEdgesTable[uri, model.value]
    ELSE computeIntraFileCallEdges(snapshot, getValue(model))

\* CodeStructureService.isSupported
isSupported(model) ==
    \/ model.languageId = "typescript"
    \/ model.languageId = "typescriptreact"
    \/ model.languageId = "javascript"
    \/ model.languageId = "javascriptreact"

\* CodeStructureService.getSnapshot: an optional snapshot
getSnapshot(snaps, uri) == IF Has(snaps, uri) THEN <<snaps[uri]>> ELSE << >>

\* getSymbolAtPosition that passes over the File symbol, as the graph's
\* findContainingSymbol does.  C30_FileAtPosition tells it from
\* getSymbolAtPosition.
getSymbolAtPosition_skipFile(snaps, uri, position) ==
    IF ~Has(snaps, uri) THEN << >>
    ELSE findContainingSymbol(snaps[uri].symbols, position)

\* CodeStructureService.getSymbolAtPosition: an optional symbol, the first
\* of the snapshot whose range contains the position
getSymbolAtPosition(snaps, uri, position) ==
    IF getSnapshot(snaps, uri) = << >> THEN << >>
    ELSE LET hits == {i \in DOMAIN snaps[uri].symbols :
                         containsPosition(snaps[uri].symbols[i].range, position)}
         IN  IF hits = {} THEN << >> ELSE <<snaps[uri].symbols[Min(hits)]>>

\* RunOnceScheduler.schedule(): cancel(), then arm one timeout
schedule(tm, uri) == [tm EXCEPT ![uri] = 1]
\* RunOnceScheduler.dispose() / cancel(): clear the armed timeout
cancel(tm, uri) == [tm EXCEPT ![uri] = 0]

\* one fired event as a reader subscribed to it sees the services
Fired(event, uri, payload, g, snaps) ==
    [event |-> event, uri |-> uri, payload |-> payload,
     graph |-> g, snapshot |-> getSnapshot(snaps, uri)]

(***************************************************************************)
(* Subscribers of onDidUpdateSnapshot                                      *)
(***************************************************************************)
\* rebuildForUri, first step: the old edges of the file leave the indexes
removeOld(g, uri) ==
    IF Has(g.fileGraphs, uri) THEN removeEdges(g, g.fileGraphs[uri].edges) ELSE g

\* rebuildForUri, second step: the file's graph is replaced and the new edges
\* enter the indexes
insertNew(removed, uri, newEdges) ==
    addEdges([removed EXCEPT !.fileGraphs = Put(@, uri, [uri |-> uri, edges |-> newEdges])],
             newEdges)

\* rebuildForUri, last step: onDidUpdateGraphForUri fires on the finished graph
fireGraph(done, snaps, uri) ==
    [graph |-> done,
     fired |-> <<Fired("onDidUpdateGraphForUri", uri, << >>, done, snaps)>>]

\* rebuildForUri with the last two steps exchanged: onDidUpdateGraphForUri
\* fires once the file's graph is replaced, the new edges enter the indexes
\* afterwards.  C2_AtomicReplacement tells it from rebuildForUri.
rebuildForUri_fireBeforeInsert(g, snaps, mods, uri) ==
    IF ~Has(snaps, uri) \/ ~Has(mods, uri) THEN [graph |-> g, fired |-> << >>]
    ELSE IF getValueLength(getValue(mods[uri])) > MAX_FILE_LENGTH_FOR_SCAN
    THEN [graph |-> g, fired |-> << >>]
    ELSE [graph |-> insertNew(removeOld(g, uri), uri,
                              modelCallEdges(snaps[uri], uri, mods[uri])),
          fired |-> fireGraph([removeOld(g, uri) EXCEPT
                                  !.fileGraphs = Put(@, uri,
                                      [uri |-> uri,
                                       edges |-> modelCallEdges(snaps[uri], uri, mods[uri])])],
                              snaps, uri).fired]

\* CodeGraphService.rebuildForUri(uri): the new graph and the events fired
rebuildForUri(g, snaps, mods, uri) ==
    IF ~Has(snaps, uri) THEN [graph |-> g, fired |-> << >>]
    ELSE IF ~Has(mods, uri) THEN [graph |-> g, fired |-> << >>]
    ELSE IF getValueLength(getValue(mods[uri])) > MAX_FILE_LENGTH_FOR_SCAN
    THEN [graph |-> g, fired |-> << >>]
    ELSE fireGraph(insertNew(removeOld(g, uri), uri,
                             modelCallEdges(snaps[uri], uri, mods[uri])),
                   snaps, uri)

\* rebuildForUri when computeIntraFileCallEdges throws: the old edges have
\* left the indexes, _fileGraphs is as it was, the catch block logs
rebuildThrown(g, snaps, mods, uri) ==
    IF ~Has(snaps, uri) \/ ~Has(mods, uri) THEN [graph |-> g, fired |-> << >>]
    ELSE IF getValueLength(getValue(mods[uri])) > MAX_FILE_LENGTH_FOR_SCAN
    THEN [graph |-> g, fired |-> << >>]
    ELSE [graph |-> removeOld(g, uri),
          fired |-> <<Fired("debug: Failed to rebuild graph for", uri, << >>,
                            removeOld(g, uri), snaps)>>]

\* this._perFile.get(key), or the record onSnapshotUpdated creates
historyOf(h, uri) ==
    IF Has(h, uri) THEN h[uri] ELSE [uri |-> uri, events |-> << >>, lastSnapshot |-> << >>]

\* the events of a pass: none without a previous snapshot (the baseline)
diffAgainst(previousSnapshot, snapshot, nextEventId) ==
    IF previousSnapshot = << >> THEN << >>
    ELSE computeDiffEvents(previousSnapshot[1], snapshot, nextEventId)

\* the try block of onSnapshotUpdated once the events of the pass are known:
\* the snapshot is remembered, each event is pushed and fired
recorded(h, history, events, nextEventId, g, snaps, uri) ==
    [perFile |-> Put(h, uri, [uri |-> uri,
                              events |-> history.events \o events,
                              lastSnapshot |-> <<snaps[uri]>>]),
     nextEventId |-> nextEventId + Len(events),
     fired |-> [k \in DOMAIN events |->
                   Fired("onDidRecordEvent", uri, <<events[k]>>, g, snaps)]]

\* onSnapshotUpdated that remembers the snapshot only when it had one to diff
\* against.  C10_BaselinePass tells it from onSnapshotUpdated.
onSnapshotUpdated_noBaseline(h, nextEventId, g, snaps, mods, uri) ==
    IF ~Has(mods, uri) \/ ~Has(snaps, uri)
    THEN [perFile |-> h, nextEventId |-> nextEventId, fired |-> << >>]
    ELSE IF historyOf(h, uri).lastSnapshot = << >>
    THEN [perFile |-> Put(h, uri, historyOf(h, uri)),
          nextEventId |-> nextEventId, fired |-> << >>]
    ELSE recorded(h, historyOf(h, uri),
                  diffAgainst(historyOf(h, uri).lastSnapshot, snaps[uri], nextEventId),
                  nextEventId, g, snaps, uri)

\* onSnapshotUpdated that waits for the graph: it returns at once while the
\* graph it sees holds no edge set of the file.  C24_SubscribersCommute tells
\* it from onSnapshotUpdated.
onSnapshotUpdated_afterGraph(h, nextEventId, g, snaps, mods, uri) ==
    IF ~Has(mods, uri) \/ ~Has(snaps, uri) \/ ~Has(g.fileGraphs, uri)
    THEN [perFile |-> h, nextEventId |-> nextEventId, fired |-> << >>]
    ELSE recorded(h, historyOf(h, uri),
                  diffAgainst(historyOf(h, uri).lastSnapshot, snaps[uri], nextEventId),
                  nextEventId, g, snaps, uri)

\* CodeHistoryService.onSnapshotUpdated(uri): the new log, the new event
\* counter and the events fired; g is the graph a reader sees meanwhile
onSnapshotUpdated(h, nextEventId, g, snaps, mods, uri) ==
    IF ~Has(mods, uri) \/ ~Has(snaps, uri)
    THEN [perFile |-> h, nextEventId |-> nextEventId, fired |-> << >>]
    ELSE recorded(h, historyOf(h, uri),
                  diffAgainst(historyOf(h, uri).lastSnapshot, snaps[uri], nextEventId),
                  nextEventId, g, snaps, uri)

\* the services' state st after a listener that left r: r's fields replace
\* st's, r's events follow the ones fired so far
heard(st, r) ==
    [k \in DOMAIN st |->
        IF k = "fired" THEN st.fired \o r.fired
        ELSE IF k \in DOMAIN r THEN r[k] ELSE st[k]]

\* one listener of onDidUpdateSnapshot run on the services' state st
listen(who, st, snaps, mods, uri) ==
    IF who = "graph"
    THEN heard(st, rebuildForUri(st.graph, snaps, mods, uri))
    ELSE IF who = "graphThrows"
    THEN heard(st, rebuildThrown(st.graph, snaps, mods, uri))
    ELSE heard(st, onSnapshotUpdated(st.perFile, st.nextEventId, st.graph, snaps, mods, uri))

RECURSIVE deliver(_, _, _, _, _)
\* Emitter.fire(uri): the listeners run one after the other, in registration order
deliver(ls, st, snaps, mods, uri) ==
    IF ls = << >> THEN st
    ELSE deliver(Tail(ls), listen(Head(ls), st, snaps, mods, uri), snaps, mods, uri)

\* this._onDidUpdateSnapshot.fire(uri) of recomputeSnapshot, the snapshot stored
fireSnapshot(uri, listeners, snaps) ==
    deliver(listeners,
            [snapshots |-> snaps, graph |-> graph, perFile |-> perFile,
             nextEventId |-> NEXT_EVENT_ID,
             fired |-> <<Fired("onDidUpdateSnapshot", uri, << >>, graph, snaps)>>],
            snaps, models, uri)

\* a try block that fires onDidUpdateSnapshot before it stores the snapshot:
\* the listeners run on the snapshots as they were.  C23_StoredBeforeFired
\* tells it from recomputed.
recomputed_fireFirst(uri, listeners) ==
    [fireSnapshot(uri, listeners, snapshots) EXCEPT
        !.snapshots = Put(snapshots, uri, modelSnapshot(uri, models[uri]))]

\* the try block of recomputeSnapshot: the snapshot is built and stored, then
\* onDidUpdateSnapshot fires
recomputed(uri, listeners) ==
    fireSnapshot(uri, listeners, Put(snapshots, uri, modelSnapshot(uri, models[uri])))

\* the services' state after a recomputation r
stored(r) ==
    /\ snapshots' = r.snapshots
    /\ graph' = r.graph
    /\ perFile' = r.perFile
    /\ NEXT_EVENT_ID' = r.nextEventId
    /\ emitted' = r.fired

\* the services' state after a recomputation r, while the history is short
settled(r) ==
    /\ r.nextEventId = NEXT_EVENT_ID \/ NEXT_EVENT_ID - 1 < MaxEvents
    /\ snapshots' = r.snapshots
    /\ graph' = r.graph
    /\ perFile' = r.perFile
    /\ NEXT_EVENT_ID' = r.nextEventId
    /\ emitted' = r.fired

\* a catch block that drops the file's snapshot.  C11_ExtractionFailureKeeps
\* tells it from caught.
caught_clears(uri) ==
    /\ snapshots' = Delete(snapshots, uri)
    /\ UNCHANGED <<graph, perFile, NEXT_EVENT_ID>>
    /\ emitted' = <<Fired("debug: Failed to compute snapshot", uri, << >>, graph, snapshots')>>

\* the catch block of recomputeSnapshot: buildSnapshot threw, nothing was
\* stored or fired, the error is logged
caught(uri) ==
    /\ UNCHANGED <<snapshots, graph, perFile, NEXT_EVENT_ID>>
    /\ emitted' = <<Fired("debug: Failed to compute snapshot", uri, << >>, graph, snapshots)>>

\* CodeStructureService.recomputeSnapshot(model).  A disposed model throws in
\* getValue(); the catch logs and leaves everything as it was.
recomputeSnapshot(uri, listeners) ==
    IF ~Has(models, uri)
    THEN caught(uri)
    ELSE settled(recomputed(uri, listeners))

(***************************************************************************)
(* CodeStructureService: handlers                                          *)
(***************************************************************************)
\* onModelAdded that creates the scheduler and leaves the first pass to the
\* first content change.  C25_EventuallySnapshot tells it from onModelAdded.
onModelAdded_noSchedule(uri, model) ==
    IF ~isSupported(model)
    THEN UNCHANGED <<recomputeSchedulers, timers>>
    ELSE /\ recomputeSchedulers' = Put(recomputeSchedulers, uri, [model |-> uri])
         /\ UNCHANGED timers

\* CodeStructureService.onModelAdded(model), for a model the service has no
\* scheduler of
onModelAdded(uri, model) ==
    IF ~isSupported(model)
    THEN UNCHANGED <<recomputeSchedulers, timers>>
    ELSE /\ recomputeSchedulers' = Put(recomputeSchedulers, uri, [model |-> uri])
         /\ timers' = schedule(timers, uri)

\* the clearTimeout of RunOnceScheduler.cancel(), when a timeout is armed
cleared(uri, snaps) ==
    IF timers[uri] > 0 THEN <<Fired("clearTimeout", uri, << >>, graph, snaps)>> ELSE << >>

\* a content listener that arms one more timeout without clearing the armed
\* one.  C3_Debounce tells it from onDidChangeContent.
onDidChangeContent_queue(uri, model) ==
    IF ~isSupported(model)
    THEN /\ UNCHANGED timers
         /\ emitted' = << >>
    ELSE /\ timers' = [timers EXCEPT ![uri] = @ + 1]
         /\ emitted' = << >>

\* the model.onDidChangeContent listener of onModelAdded; the model is the
\* model after the change
onDidChangeContent(uri, model) ==
    IF ~isSupported(model)
    THEN /\ UNCHANGED timers
         /\ emitted' = << >>
    ELSE /\ timers' = schedule(timers, uri)
         /\ emitted' = cleared(uri, snapshots)

\* onModelRemoved that forgets the scheduler without disposing it: the armed
\* timeout stays.  C7_RemovalCancels tells it from onModelRemoved.
onModelRemoved_noDispose(uri) ==
    /\ UNCHANGED timers
    /\ recomputeSchedulers' = Delete(recomputeSchedulers, uri)
    /\ snapshots' = IF Has(recomputeSchedulers, uri) THEN Delete(snapshots, uri) ELSE snapshots
    /\ emitted' = << >>

\* CodeStructureService.onModelRemoved(model), then the model.onWillDispose
\* listener of onModelAdded when the model was tracked
onModelRemoved(uri) ==
    /\ timers' = IF Has(recomputeSchedulers, uri) THEN cancel(timers, uri) ELSE timers
    /\ recomputeSchedulers' = Delete(recomputeSchedulers, uri)
    /\ snapshots' = IF Has(recomputeSchedulers, uri) THEN Delete(snapshots, uri) ELSE snapshots
    /\ emitted' = IF Has(recomputeSchedulers, uri) THEN cleared(uri, snapshots') ELSE << >>

\* a history that drops the file's record on close.  C9_AppendOnly tells it
\* from historyOnModelRemoved.
historyOnModelRemoved_drop(h, uri) == Delete(h, uri)

\* CodeHistoryService.onModelRemoved(model)
historyOnModelRemoved(h, uri) ==
    IF Has(h, uri) THEN [h EXCEPT ![uri].lastSnapshot = << >>] ELSE h

(***************************************************************************)
(* Actions                                                                 *)
(***************************************************************************)
NewModel(lang, t) == [languageId |-> lang, versionId |-> 1, value |-> t]

\* the services are constructed over the models already open:
\* registerListeners calls onModelAdded for each of them
Init ==
    /\ models \in UNION {[D -> {NewModel(l, t) : l \in Languages, t \in TextIds}] : D \in SUBSET Uris}
    /\ snapshots = EmptyMap
    /\ recomputeSchedulers =
           [u \in {x \in DOMAIN models : isSupported(models[x])} |-> [model |-> u]]
    /\ timers = [u \in Uris |-> IF u \in DOMAIN models /\ isSupported(models[u]) THEN 1 ELSE 0]
    /\ graph = EmptyGraph
    /\ perFile = EmptyMap
    /\ NEXT_EVENT_ID = 1
    /\ emitted = << >>

\* IModelService.onModelAdded fires for a new document
ModelAdded(uri, lang, t) ==
    /\ ~Has(models, uri)
    /\ models' = Put(models, uri, NewModel(lang, t))
    /\ onModelAdded(uri, NewModel(lang, t))
    /\ emitted' = << >>
    /\ UNCHANGED <<snapshots, graph, perFile, NEXT_EVENT_ID>>

\* an edit: the model's version grows and its listeners run
ContentChanged(uri, t) ==
    /\ Has(models, uri)
    /\ models[uri].versionId < MaxVersion
    /\ models' = [models EXCEPT ![uri].versionId = @ + 1, ![uri].value = t]
    /\ IF Has(recomputeSchedulers, uri)
       THEN onDidChangeContent(uri, models'[uri])
       ELSE UNCHANGED timers /\ emitted' = << >>
    /\ UNCHANGED <<snapshots, recomputeSchedulers, graph, perFile, NEXT_EVENT_ID>>

\* the document's language is set to another one
LanguageChanged(uri, lang) ==
    /\ Has(models, uri)
    /\ models[uri].languageId # lang
    /\ models' = [models EXCEPT ![uri].languageId = lang]
    /\ emitted' = << >>
    /\ UNCHANGED <<snapshots, recomputeSchedulers, timers, graph, perFile,
                   NEXT_EVENT_ID>>

\* the quiet period of a scheduler ends: its runner recomputes the snapshot
TimerFires(uri, listeners) ==
    /\ timers[uri] > 0
    /\ timers' = [timers EXCEPT ![uri] = @ - 1]
    /\ recomputeSnapshot(uri, listeners)
    /\ UNCHANGED <<models, recomputeSchedulers>>

\* the document is disposed: onWillDispose and IModelService.onModelRemoved
ModelRemoved(uri) ==
    /\ Has(models, uri)
    /\ models' = Delete(models, uri)
    /\ onModelRemoved(uri)
    /\ perFile' = historyOnModelRemoved(perFile, uri)
    /\ UNCHANGED <<graph, NEXT_EVENT_ID>>

Next ==
    \/ \E uri \in Uris, lang \in Languages, t \in TextIds : ModelAdded(uri, lang, t)
    \/ \E uri \in Uris, t \in TextIds : ContentChanged(uri, t)
    \/ \E uri \in Uris, lang \in Languages : LanguageChanged(uri, lang)
    \/ \E uri \in Uris, listeners \in ListenerOrders : TimerFires(uri, listeners)
    \/ \E uri \in Uris : ModelRemoved(uri)

Spec == Init /\ [][Next]_vars

(***************************************************************************)
(* Failing passes.  Nothing in the services' own code makes buildSnapshot   *)
(* or computeIntraFileCallEdges throw on the documents above; the try      *)
(* blocks guard against the calls they make into the host.  Here a pass    *)
(* may fail: the behaviours of Spec in which no language changes, and      *)
(* those in which a call throws.                                           *)
(***************************************************************************)
\* the listeners when computeIntraFileCallEdges throws in the graph's
FaultOrders == {<<"graphThrows", "history">>, <<"history", "graphThrows">>}

\* the quiet period ends and buildSnapshot throws in recomputeSnapshot
ExtractionThrows(uri) ==
    /\ timers[uri] > 0
    /\ Has(models, uri)
    /\ timers' = [timers EXCEPT ![uri] = @ - 1]
    /\ caught(uri)
    /\ UNCHANGED <<models, recomputeSchedulers>>

\* the quiet period ends and computeIntraFileCallEdges throws in rebuildForUri
EdgesThrow(uri, listeners) ==
    /\ timers[uri] > 0
    /\ timers' = [timers EXCEPT ![uri] = @ - 1]
    /\ recomputeSnapshot(uri, listeners)
    /\ UNCHANGED <<models, recomputeSchedulers>>

\* a document keeps its language here: isSupported is the only reader of it
NextFaults ==
    \/ \E uri \in Uris, lang \in Languages, t \in TextIds : ModelAdded(uri, lang, t)
    \/ \E uri \in Uris, t \in TextIds : ContentChanged(uri, t)
    \/ \E uri \in Uris, listeners \in ListenerOrders : TimerFires(uri, listeners)
    \/ \E uri \in Uris : ModelRemoved(uri)
    \/ \E uri \in Uris : ExtractionThrows(uri)
    \/ \E uri \in Uris, listeners \in FaultOrders : EdgesThrow(uri, listeners)

SpecFaults == Init /\ [][NextFaults]_vars

(***************************************************************************)
(* One open document.  A typescript document of Documents is open when the *)
(* services are constructed and stays open; it is edited up to version     *)
(* MaxVersion, so the passes are few and the history needs no cap.         *)
(***************************************************************************)
InitOpen ==
    /\ models \in [Uris -> {NewModel("typescript", t) : t \in DocumentIds}]
    /\ snapshots = EmptyMap
    /\ recomputeSchedulers = [u \in Uris |-> [model |-> u]]
    /\ timers = [u \in Uris |-> 1]
    /\ graph = EmptyGraph
    /\ perFile = EmptyMap
    /\ NEXT_EVENT_ID = 1
    /\ emitted = << >>

\* the quiet period of a scheduler ends: its runner recomputes the snapshot
RunnerRuns(uri, listeners) ==
    /\ timers[uri] > 0
    /\ timers' = [timers EXCEPT ![uri] = @ - 1]
    /\ stored(recomputed(uri, listeners))
    /\ UNCHANGED <<models, recomputeSchedulers>>

NextOpen ==
    \/ \E uri \in Uris, t \in DocumentIds : ContentChanged(uri, t)
    \/ \E uri \in Uris, listeners \in ListenerOrders : RunnerRuns(uri, listeners)

SpecOpen == InitOpen /\ [][NextOpen]_vars

(***************************************************************************)
(* Scheduling.  The timeout of a RunOnceScheduler that stays armed elapses: *)
(* the host runs the callbacks of setTimeout.  A document keeps its        *)
(* language, and documents are added only while the history holds fewer    *)
(* than MaxEvents events, so that no pass has to be held back.             *)
(***************************************************************************)
\* IModelService.onModelAdded fires for a new document, while the history
\* is short
ModelObserved(uri, lang, t) ==
    /\ NEXT_EVENT_ID - 1 < MaxEvents
    /\ ModelAdded(uri, lang, t)

NextLive ==
    \/ \E uri \in Uris, lang \in Languages, t \in TextIds : ModelObserved(uri, lang, t)
    \/ \E uri \in Uris, t \in TextIds : ContentChanged(uri, t)
    \/ \E uri \in Uris, listeners \in ListenerOrders : RunnerRuns(uri, listeners)
    \/ \E uri \in Uris : ModelRemoved(uri)

\* the step of NextLive in which the armed timeout of file uri elapses: the
\* step of RunnerRuns, the only one that takes a timeout away and leaves
\* the models as they are
Elapses(uri) ==
    /\ timers[uri] > 0
    /\ timers' = [timers EXCEPT ![uri] = @ - 1]
    /\ models' = models

SpecLive ==
    /\ Init
    /\ [][NextLive]_vars
    /\ \A uri \in Uris : WF_<<timers, models>>(Elapses(uri))

(***************************************************************************)
(* Properties                                                              *)
(***************************************************************************)
\* the symbol ids of file uri start with its uri (buildSymbolId)
IsIdOf(uri, id) == StartsWith(id, 1, uri \o <<":", ":">>)

\* the ids the indexes of g hold a list for
IndexKeys(g) == DOMAIN g.outgoingEdges \cup DOMAIN g.incomingEdges

\* the ids the edges mention
EdgeIds(edges) ==
    {edges[k].from : k \in DOMAIN edges} \cup {edges[k].to : k \in DOMAIN edges}

\* g records exactly `edges` for file uri: getEdgesForFile returns them, and
\* getCallees / getCallers of each of the file's ids return the ones leaving /
\* entering it, nothing else
Records(g, uri, edges) ==
    /\ getEdgesForFile(g, uri) = edges
    /\ \A id \in {x \in IndexKeys(g) \cup EdgeIds(edges) : IsIdOf(uri, x)} :
          /\ getCallees(g, id) = SelectSeq(edges, LAMBDA e : e.from = id)
          /\ getCallers(g, id) = SelectSeq(edges, LAMBDA e : e.to = id)

\* the edge set computed from a snapshot: the snapshot was built from one of
\* the documents, and the edges are the ones computed over it
SnapshotEdges(uri, snapshot) ==
    callEdgesTable[uri, CHOOSE t \in TextIds : snapshotTable[uri, t] = snapshot.symbols]

\* the events of `fired` named event, for file uri
EventsOf(fired, event, uri) ==
    {k \in DOMAIN fired : fired[k].event = event /\ fired[k].uri = uri}

IsPrefix(a, b) == Len(a) <= Len(b) /\ SubSeq(b, 1, Len(a)) = a

\* removeEdges compares edge objects by identity; the model compares their
\* fields.  The two agree as long as no index list holds two equal edges.
NoTwinEdges ==
    /\ \A id \in DOMAIN graph.outgoingEdges :
          \A i, j \in DOMAIN graph.outgoingEdges[id] :
             graph.outgoingEdges[id][i] = graph.outgoingEdges[id][j] => i = j
    /\ \A id \in DOMAIN graph.incomingEdges :
          \A i, j \in DOMAIN graph.incomingEdges[id] :
             graph.incomingEdges[id][i] = graph.incomingEdges[id][j] => i = j

\* C1: in every reachable state, for every file with a current snapshot, the
\* edges recorded for the file (getEdgesForFile and the caller and callee
\* index entries of its symbols) are exactly the edge set computed from that
\* snapshot, and ids the snapshot no longer has get an empty answer.
\* The code breaks it: a document over MAX_FILE_LENGTH_FOR_SCAN gets a new
\* snapshot while rebuildForUri leaves the file's edges as they were.
C1_EdgesMatchSnapshot ==
    \A u \in Uris :
        Has(snapshots, u) => Records(graph, u, SnapshotEdges(u, snapshots[u]))

\* C2: a rebuild removes the old edges, inserts the new ones and then fires
\* onDidUpdateGraphForUri: whenever a reader can run (at each event fired by
\* a handler, and between handlers) the file's edges and index entries are
\* the complete set from before the handler or the complete set after it,
\* and when onDidUpdateGraphForUri fires they are the complete new set,
\* computed from the snapshot the reader sees.
C2_AtomicReplacement ==
    [][\A u \in Uris :
          /\ Records(graph', u, getEdgesForFile(graph', u))
          /\ \A k \in DOMAIN emitted' :
                emitted'[k].uri = u =>
                   /\ \/ Records(emitted'[k].graph, u, getEdgesForFile(graph, u))
                      \/ Records(emitted'[k].graph, u, getEdgesForFile(graph', u))
                   /\ emitted'[k].event = "onDidUpdateGraphForUri" =>
                         /\ emitted'[k].snapshot # << >>
                         /\ Records(emitted'[k].graph, u,
                                    SnapshotEdges(u, emitted'[k].snapshot[1]))
                         /\ emitted'[k].graph = graph'
                         /\ EventsOf(emitted', "onDidUpdateGraphForUri", u) = {k}]_vars

\* C2's case: a rebuild replaced a non-empty edge set by a different one, and
\* a reader ran before it (onDidUpdateSnapshot) and after it
C2_Witness ==
    \E u \in Uris : \E i, j \in DOMAIN emitted :
        /\ emitted[i].event = "onDidUpdateSnapshot" /\ emitted[i].uri = u
        /\ emitted[j].event = "onDidUpdateGraphForUri" /\ emitted[j].uri = u
        /\ getEdgesForFile(emitted[i].graph, u) # << >>
        /\ getEdgesForFile(emitted[j].graph, u) # << >>
        /\ getEdgesForFile(emitted[j].graph, u) # getEdgesForFile(emitted[i].graph, u)

\* a content change of a tracked supported document happens in this step
ChangesContent(u) ==
    /\ Has(models, u) /\ Has(models', u)
    /\ models'[u].versionId > models[u].versionId
    /\ Has(recomputeSchedulers, u)
    /\ isSupported(models'[u])

\* C3: a file has one debounce timer.  Every content change of a tracked
\* supported document leaves exactly one timeout armed, however many changes
\* came before it, so at most one recomputation is pending; onDidUpdateSnapshot
\* fires exactly once in the step in which the armed timeout elapses and in no
\* other step; and a timeout becomes armed only by a content change or by the
\* document being added.
C3_Debounce ==
    [][\A u \in Uris :
          /\ timers'[u] <= 1
          /\ ChangesContent(u) => timers'[u] = 1 /\ snapshots' = snapshots
          /\ Cardinality(EventsOf(emitted', "onDidUpdateSnapshot", u))
                = IF timers[u] = 1 /\ timers'[u] = 0 /\ Has(models', u) THEN 1 ELSE 0
          /\ timers'[u] > timers[u] => ChangesContent(u) \/ ~Has(models, u)]_vars

\* C3's case: a content change arrived while the timeout of an earlier one
\* was armed (the host cleared that timeout), and one timeout is armed
C3_Witness ==
    \E u \in Uris :
        /\ Has(models, u) /\ models[u].versionId > 2
        /\ EventsOf(emitted, "clearTimeout", u) # {}
        /\ timers[u] = 1

\* the function of the snapshot declared on the line, as an optional value
FunctionOn(snapshot, line) ==
    SelectSeq(snapshot.symbols,
              LAMBDA x : x.kind = KindFunction /\ x.range.startLineNumber = line)

\* the events the step appends to the history of file u
NewEvents(u) ==
    SubSeq(getEventsForFile(perFile', u),
           Len(getEventsForFile(perFile, u)) + 1, Len(getEventsForFile(perFile', u)))

\* a diff pass of file u happens in this step: a remembered snapshot is
\* replaced by the next one
DiffPass(u) ==
    /\ Has(perFile, u) /\ perFile[u].lastSnapshot # << >>
    /\ EventsOf(emitted', "onDidUpdateSnapshot", u) # {}
    /\ Has(perFile', u) /\ perFile'[u].lastSnapshot # << >>

\* the diff pass of this step saw the function `was` of the previous snapshot
\* renamed to `now` and recorded it as C4 says
RenameRecorded(u, was, now) ==
    /\ \E k \in DOMAIN NewEvents(u) :
          /\ NewEvents(u)[k].kind = SymbolChanged
          /\ NewEvents(u)[k].symbolId = was.id
          /\ IndexOf(NewEvents(u)[k].summary, was.name) # -1
          /\ IndexOf(NewEvents(u)[k].summary, now.name) # -1
    /\ \A k \in DOMAIN NewEvents(u) :
          NewEvents(u)[k].symbolId = was.id => NewEvents(u)[k].kind = SymbolChanged

\* C4: when the previous snapshot has a function on a line and the next one
\* has, on the same line, the function under another name, the diff pass
\* records a SymbolChanged event for the symbol's id whose summary names both
\* names, and no SymbolAdded or SymbolRemoved event for that id.
\* The code breaks it: the id holds the name, so the renamed function is
\* another id, and the pass records SymbolRemoved and SymbolAdded.
C4_RenameRecordsChange ==
    [][\A u \in Uris : \A line \in 1..2 :
          (/\ DiffPass(u)
           /\ FunctionOn(perFile[u].lastSnapshot[1], line) # << >>
           /\ FunctionOn(perFile'[u].lastSnapshot[1], line) # << >>
           /\ FunctionOn(perFile[u].lastSnapshot[1], line)[1].name
                 # FunctionOn(perFile'[u].lastSnapshot[1], line)[1].name)
          => RenameRecorded(u, FunctionOn(perFile[u].lastSnapshot[1], line)[1],
                            FunctionOn(perFile'[u].lastSnapshot[1], line)[1])]_vars

\* C5: once the graph is rebuilt for the document whose line 1 declares
\* function a with the call b() and whose line 2 declares function b (the
\* first of Texts: "function a(){ b(); }\nfunction b(){}"), the
\* file has a Call edge from a's id to b's id, and getCallers(b.id) holds
\* exactly one edge with from = a.id.
\* The code breaks it: a symbol's range covers its name only, so the call is
\* attributed to the File symbol and the edges are a -> a, File -> b, b -> b.
C5_CallEdge ==
    \A u \in Uris :
        (Has(snapshots, u) /\ snapshots[u].symbols = snapshotTable[u, 1])
        => /\ \E k \in DOMAIN getEdgesForFile(graph, u) :
                 getEdgesForFile(graph, u)[k]
                    = [from |-> buildSymbolId(u, <<"a">>, 1),
                       to |-> buildSymbolId(u, <<"b">>, 2),
                       kind |-> GraphEdgeKindCall]
           /\ Len(SelectSeq(getCallers(graph, buildSymbolId(u, <<"b">>, 2)),
                            LAMBDA e : e.from = buildSymbolId(u, <<"a">>, 1))) = 1

\* C6: a supported document that was open when the indexer was constructed,
\* or was added since, and has seen neither a content change nor its timeout
\* elapse, has a snapshot.
\* The code breaks it: onModelAdded arms the scheduler, and the snapshot is
\* stored when the timeout elapses, RECOMPUTE_DELAY later.
C6_SnapshotOnConstruction ==
    \A u \in Uris :
        (/\ Has(models, u) /\ isSupported(models[u])
         /\ Has(recomputeSchedulers, u)
         /\ models[u].versionId = 1
         /\ timers[u] = 1)
        => getSnapshot(snapshots, u) # << >>

\* C7: removing a tracked document cancels its pending timeout.  While the
\* document is away no timeout of it is armed, so no recomputation of it can
\* run; no onDidUpdateSnapshot fires for it; and getSnapshot returns
\* undefined for it.
C7_RemovalCancels ==
    \A u \in Uris :
        ~Has(models, u) =>
            /\ timers[u] = 0
            /\ getSnapshot(snapshots, u) = << >>
            /\ EventsOf(emitted, "onDidUpdateSnapshot", u) = {}

\* C7's case: the document was removed while its timeout was armed, and the
\* host cleared the timeout
C7_Witness ==
    \E u \in Uris :
        /\ ~Has(models, u)
        /\ EventsOf(emitted, "clearTimeout", u) # {}
        /\ timers[u] = 0

\* C8: after a tracked document is removed its graph state is gone:
\* getEdgesForFile returns no edge, and getCallers and getCallees return no
\* edge for each of the file's symbol ids.
\* The code breaks it: CodeGraphService does not listen to onModelRemoved, so
\* the edges of the last rebuild stay.
C8_GraphDroppedOnRemoval ==
    \A u \in Uris : ~Has(models, u) => Records(graph, u, << >>)

NoPrevious(u) == ~Has(perFile, u) \/ perFile[u].lastSnapshot = << >>

\* C10: an onDidUpdateSnapshot that finds no remembered previous snapshot
\* records no event, fires no onDidRecordEvent and leaves the new snapshot
\* remembered.  That is the case of the first snapshot of a file and of the
\* first snapshot after the document was removed and added again (the
\* indexer holds no snapshot of the file then), whatever the history holds.
C10_BaselinePass ==
    [][\A u \in Uris :
          EventsOf(emitted', "onDidUpdateSnapshot", u) # {} =>
             /\ ~Has(snapshots, u) => NoPrevious(u)
             /\ NoPrevious(u) =>
                   /\ getEventsForFile(perFile', u) = getEventsForFile(perFile, u)
                   /\ EventsOf(emitted', "onDidRecordEvent", u) = {}
                   /\ NEXT_EVENT_ID' = NEXT_EVENT_ID
                   /\ Has(perFile', u)
                   /\ perFile'[u].lastSnapshot = getSnapshot(snapshots', u)
                   /\ perFile'[u].lastSnapshot # << >>]_vars

\* C10's case: the first snapshot after a reopening, of a document whose
\* symbols differ from the ones the history saw before the close (its last
\* event says a symbol was removed that the new snapshot has), became the
\* baseline without an event
C10_Witness ==
    \E u \in Uris :
        /\ EventsOf(emitted, "onDidUpdateSnapshot", u) # {}
        /\ EventsOf(emitted, "onDidRecordEvent", u) = {}
        /\ Has(snapshots, u) /\ snapshots[u].version = 1
        /\ getEventsForFile(perFile, u) # << >>
        /\ perFile[u].lastSnapshot = <<snapshots[u]>>
        /\ LET last == perFile[u].events[Len(perFile[u].events)]
           IN  /\ last.kind = SymbolRemoved
               /\ \E k \in DOMAIN snapshots[u].symbols :
                     snapshots[u].symbols[k].id = last.symbolId

\* C11: when buildSnapshot throws in a pass, the pass ends in the catch
\* block: getSnapshot returns for the file what it returned before the pass
\* (a snapshot or undefined), and no onDidUpdateSnapshot fires in the pass.
C11_ExtractionFailureKeeps ==
    [][\A u \in Uris :
          EventsOf(emitted', "debug: Failed to compute snapshot", u) # {} =>
             /\ getSnapshot(snapshots', u) = getSnapshot(snapshots, u)
             /\ EventsOf(emitted', "onDidUpdateSnapshot", u) = {}
             /\ emitted'[1].snapshot = getSnapshot(snapshots, u)
             /\ timers'[u] = 0]_vars

\* C11's case: a pass threw for a file that had a snapshot
C11_Witness ==
    \E u \in Uris :
        /\ EventsOf(emitted, "debug: Failed to compute snapshot", u) # {}
        /\ getSnapshot(snapshots, u) # << >>

\* C12: when computeIntraFileCallEdges throws in a rebuild, the graph is as
\* before the pass: getEdgesForFile, getCallers and getCallees return what
\* they returned, and no onDidUpdateGraphForUri fires.
\* The code breaks it: the old edges are removed from the indexes before the
\* computation starts, and the catch block does not put them back.
C12_EdgeFailureKeeps ==
    [][\A u \in Uris :
          EventsOf(emitted', "debug: Failed to rebuild graph for", u) # {} =>
             /\ Records(graph', u, getEdgesForFile(graph, u))
             /\ EventsOf(emitted', "onDidUpdateGraphForUri", u) = {}]_vars

\* the timeout of file u elapses in this step
PassRuns(u) == timers[u] > 0 /\ timers'[u] < timers[u]

\* C13: when the pass of a document runs and the document is longer than
\* the size ceiling, the indexer skips the pass: the stored snapshots stay as
\* they are and no onDidUpdateSnapshot fires.
\* The code breaks it: recomputeSnapshot and buildSnapshot never look at the
\* length; the only test against MAX_FILE_LENGTH_FOR_SCAN is in rebuildForUri.
C13_OversizeSkipped ==
    [][\A u \in Uris :
          (/\ PassRuns(u)
           /\ Has(models, u)
           /\ getValueLength(getValue(models[u])) > MAX_FILE_LENGTH_FOR_SCAN)
          => /\ snapshots' = snapshots
             /\ EventsOf(emitted', "onDidUpdateSnapshot", u) = {}]_vars

\* C14: in every reachable state a document whose language is not one of
\* the four supported ones has no snapshot, and no onDidUpdateSnapshot has
\* just fired for it.
\* The code breaks it: the language is tested when the document is added and
\* in the content listener only; a tracked document whose language changes
\* keeps its snapshot, and its armed timeout still stores one.
C14_UnsupportedIgnored ==
    \A u \in Uris :
        (Has(models, u) /\ ~isSupported(models[u]))
        => /\ getSnapshot(snapshots, u) = << >>
           /\ EventsOf(emitted, "onDidUpdateSnapshot", u) = {}

\* C15: the versions of the snapshots getSnapshot returns for a file never
\* decrease.  A step never replaces a snapshot by one of a lower version, and
\* a snapshot is never of a lower version than a snapshot the history saw
\* before it (each event holds the version of the snapshot of its pass,
\* which getSnapshot returned when the event fired).
\* The code breaks it: the version is the model's getVersionId(); a document
\* that is removed and added again is a new model whose versions start
\* again, and its first snapshot has a lower version than the last one
\* before the removal.
C15_VersionMonotonic ==
    [][\A u \in Uris :
          Has(snapshots', u) =>
             /\ Has(snapshots, u) => snapshots'[u].version >= snapshots[u].version
             /\ \A k \in DOMAIN getEventsForFile(perFile', u) :
                   getEventsForFile(perFile', u)[k].snapshot.version
                      <= snapshots'[u].version]_vars

\* the ids of the symbols of a snapshot
IdsOf(snapshot) == {snapshot.symbols[k].id : k \in DOMAIN snapshot.symbols}

\* the names the symbols of id `id` have in a snapshot
NamesOf(snapshot, id) ==
    {snapshot.symbols[k].name : k \in {j \in DOMAIN snapshot.symbols : snapshot.symbols[j].id = id}}

\* the place of the first symbol of id `id` in a snapshot
PlaceOf(snapshot, id) ==
    CHOOSE k \in DOMAIN snapshot.symbols :
        /\ snapshot.symbols[k].id = id
        /\ \A j \in 1..(k - 1) : snapshot.symbols[j].id # id

\* the kinds of the events among `events` that carry symbol id `id`, in order
KindsFor(events, id) ==
    LET mine == SelectSeq(events, LAMBDA e : e.symbolId = id)
    IN  [k \in DOMAIN mine |-> mine[k].kind]

\* the events are exactly the differences of snapshot P and snapshot N: one
\* SymbolRemoved for each id of P that N lacks, one SymbolAdded for each id
\* of N that P lacks, one SymbolChanged for each id of both whose name
\* differs, no event for an id of both whose name is the same, and no event
\* for any other id
ExactOn(P, N, events) ==
    /\ \A id \in IdsOf(P) \ IdsOf(N) : KindsFor(events, id) = <<SymbolRemoved>>
    /\ \A id \in IdsOf(N) \ IdsOf(P) : KindsFor(events, id) = <<SymbolAdded>>
    /\ \A id \in IdsOf(P) \cap IdsOf(N) :
          KindsFor(events, id) =
             IF NamesOf(P, id) # NamesOf(N, id) THEN <<SymbolChanged>> ELSE << >>
    /\ \A k \in DOMAIN events : events[k].symbolId \in IdsOf(P) \cup IdsOf(N)

\* buildSymbolId puts the name of a symbol in its id, so no pass of the
\* indexer meets an id whose name differs.  These snapshots, of at most
\* MaxDiffSymbols symbols with distinct ids and any names, are the inputs of
\* computeDiffEvents that do.
MaxDiffSymbols == 2
DiffIds == {<<"x">>, <<"y">>}
DiffNames == {<<"a">>, <<"b">>}
DiffSymbols == [id : DiffIds, name : DiffNames]
DiffSnapshots ==
    {[uri |-> <<"/", "a">>, version |-> 1, symbols |-> q] :
        q \in {r \in UNION {[1..n -> DiffSymbols] : n \in 0..MaxDiffSymbols} :
                  \A i, j \in DOMAIN r : r[i].id = r[j].id => i = j}}

\* computeDiffEvents is exact on every pair of those snapshots
ExactOnDiffSnapshots ==
    \A P \in DiffSnapshots, N \in DiffSnapshots : ExactOn(P, N, computeDiffEvents(P, N, 1))

\* C16: a diff pass with remembered previous snapshot P and new snapshot N
\* records exactly one SymbolRemoved for each id of P that N lacks, exactly
\* one SymbolAdded for each id of N that P lacks, exactly one SymbolChanged
\* for each id of both whose name differs, no other event, and no id gets
\* more than one event.  It is stated of every pass the indexer runs and of
\* computeDiffEvents on the snapshots of DiffSnapshots.
C16_ExactDiff ==
    [][/\ ExactOnDiffSnapshots
       /\ \A u \in Uris :
             DiffPass(u) =>
                ExactOn(perFile[u].lastSnapshot[1], perFile'[u].lastSnapshot[1], NewEvents(u))]_vars

\* C16's case: a diff pass has just recorded a removal and an addition while
\* an id that stayed (the file's) got no event
C16_Witness ==
    \E u \in Uris :
        /\ EventsOf(emitted, "onDidRecordEvent", u) # {}
        /\ Has(perFile, u) /\ perFile[u].lastSnapshot # << >>
        /\ \E i, j \in DOMAIN perFile[u].events :
              /\ perFile[u].events[i].kind = SymbolRemoved
              /\ perFile[u].events[j].kind = SymbolAdded
              /\ perFile[u].events[i].snapshot.version = perFile[u].lastSnapshot[1].version
              /\ perFile[u].events[j].snapshot.version = perFile[u].lastSnapshot[1].version
              /\ perFile[u].events[i].symbolId \notin IdsOf(perFile[u].lastSnapshot[1])
              /\ perFile[u].events[j].symbolId \in IdsOf(perFile[u].lastSnapshot[1])
        /\ \E id \in IdsOf(perFile[u].lastSnapshot[1]) :
              KindsFor(perFile[u].events, id) = << >>

\* the onDidRecordEvent events among `fired` for file u, in firing order
RecordedFor(fired, u) ==
    LET mine == SelectSeq(fired, LAMBDA f : f.event = "onDidRecordEvent" /\ f.uri = u)
    IN  [k \in DOMAIN mine |-> mine[k].payload[1]]

\* C17: among the events one diff pass appends, every SymbolRemoved precedes
\* every SymbolAdded and SymbolChanged, the removals follow the order of the
\* previous snapshot's symbols, the additions and changes the order of the
\* new snapshot's symbols, and onDidRecordEvent fires once per event in the
\* order of the log.
C17_RemovalsFirst ==
    [][\A u \in Uris :
          DiffPass(u) =>
             /\ \A i, j \in DOMAIN NewEvents(u) :
                   i < j =>
                      /\ NewEvents(u)[j].kind = SymbolRemoved
                            => NewEvents(u)[i].kind = SymbolRemoved
                      /\ (NewEvents(u)[i].kind = SymbolRemoved /\ NewEvents(u)[j].kind = SymbolRemoved)
                            => PlaceOf(perFile[u].lastSnapshot[1], NewEvents(u)[i].symbolId)
                                  < PlaceOf(perFile[u].lastSnapshot[1], NewEvents(u)[j].symbolId)
                      /\ (NewEvents(u)[i].kind # SymbolRemoved /\ NewEvents(u)[j].kind # SymbolRemoved)
                            => PlaceOf(perFile'[u].lastSnapshot[1], NewEvents(u)[i].symbolId)
                                  < PlaceOf(perFile'[u].lastSnapshot[1], NewEvents(u)[j].symbolId)
             /\ RecordedFor(emitted', u) = NewEvents(u)]_vars

\* C17's case: the pass that has just run recorded a removal and then an
\* addition, and fired onDidRecordEvent for both
C17_Witness ==
    \E u \in Uris :
        /\ Len(RecordedFor(emitted, u)) >= 2
        /\ RecordedFor(emitted, u)[1].kind = SymbolRemoved
        /\ RecordedFor(emitted, u)[Len(RecordedFor(emitted, u))].kind = SymbolAdded
        /\ IsPrefix(RecordedFor(emitted, u),
                    SubSeq(perFile[u].events,
                           Len(perFile[u].events) - Len(RecordedFor(emitted, u)) + 1,
                           Len(perFile[u].events)))

\* what a symbol declares: the file, the name, the container and the line
Declaration(symbol) ==
    [uri |-> symbol.uri, name |-> symbol.name, containerId |-> symbol.containerId,
     line |-> symbol.range.startLineNumber]

\* the symbols of id `id` in a snapshot
SymbolsOf(snapshot, id) ==
    {snapshot.symbols[k] : k \in {j \in DOMAIN snapshot.symbols : snapshot.symbols[j].id = id}}

\* the symbols of id `id` in the snapshots of all the documents
EverSymbolsOf(id) ==
    UNION {SymbolsOf([symbols |-> snapshotTable[u, t]], id) : u \in Uris, t \in DocumentIds}

\* event e is about file uri and a symbol called name
Names(e, uri, name) ==
    /\ e.uri = uri
    /\ \/ e.kind = SymbolRemoved /\ e.summary = W_Removed \o name
       \/ e.kind = SymbolAdded /\ e.summary = W_Added \o name
       \/ e.kind = SymbolChanged /\ IndexOf(e.summary, name) # -1

\* an event of the history of file u refers to symbol s: the events before
\* it with s's id name s's file and name, and every symbol that a snapshot
\* of any document gives that id declares what s declares
SameDeclaration(u, e, s) ==
    /\ Names(e, s.uri, s.name)
    /\ \A j \in DOMAIN getEventsForFile(perFile, u) :
          getEventsForFile(perFile, u)[j].symbolId = s.id
             => Names(getEventsForFile(perFile, u)[j], s.uri, s.name)
    /\ \A s2 \in EverSymbolsOf(s.id) : Declaration(s2) = Declaration(s)

\* C18: any two events of the history that carry the same symbolId refer to
\* the same file, symbol name, container and declaration line; an id that
\* got a SymbolRemoved is never the id of another declaration's event.
\* Each event a pass records refers to a symbol of the pass's previous or
\* new snapshot; the earlier events with its id name the same file and
\* name, and the id is the id of no other declaration in any snapshot taken
\* of the documents, which is where the earlier events' symbols came from.
C18_StableIds ==
    [][\A u \in Uris :
          DiffPass(u) =>
             \A k \in DOMAIN NewEvents(u) :
                /\ SymbolsOf(perFile[u].lastSnapshot[1], NewEvents(u)[k].symbolId)
                      \cup SymbolsOf(perFile'[u].lastSnapshot[1], NewEvents(u)[k].symbolId) # {}
                /\ \A s \in SymbolsOf(perFile[u].lastSnapshot[1], NewEvents(u)[k].symbolId)
                            \cup SymbolsOf(perFile'[u].lastSnapshot[1], NewEvents(u)[k].symbolId) :
                      SameDeclaration(u, NewEvents(u)[k], s)]_vars

\* C18's case: an id that got a SymbolRemoved got a later event
C18_Witness ==
    \E u \in Uris :
        /\ Has(perFile, u)
        /\ \E i, j \in DOMAIN perFile[u].events :
              /\ i < j
              /\ perFile[u].events[i].kind = SymbolRemoved
              /\ perFile[u].events[j].kind = SymbolAdded
              /\ perFile[u].events[i].symbolId = perFile[u].events[j].symbolId

\* the position after the last character of a text: the last line and its
\* end column, as ITextModel counts them
DocumentEnd(text) ==
    [lineNumber |-> getPositionAt(text, Len(text.chars)).lineNumber,
     column |-> getPositionAt(text, Len(text.chars)).column + text.pad]

\* the places of the File symbols of a snapshot
FilePlaces(snapshot) == {k \in DOMAIN snapshot.symbols : snapshot.symbols[k].kind = KindFile}

\* C19: every snapshot that is stored has exactly one symbol of kind File,
\* it is the first of the symbols, and its range goes from line 1 column 1
\* to the end column of the document's last line, which is line 1 column 1
\* for the empty document.
C19_FileSymbol ==
    [][\A u \in Uris :
          EventsOf(emitted', "onDidUpdateSnapshot", u) # {} =>
             /\ Has(snapshots', u)
             /\ FilePlaces(snapshots'[u]) = {1}
             /\ snapshots'[u].symbols[1].range =
                   Range(1, 1, DocumentEnd(getValue(models[u])).lineNumber,
                               DocumentEnd(getValue(models[u])).column)
             /\ getValueLength(getValue(models[u])) = 0
                   => snapshots'[u].symbols[1].range = Range(1, 1, 1, 1)]_vars

\* C19's case: the snapshot of the empty document has just been stored
C19_Witness ==
    \E u \in Uris :
        /\ EventsOf(emitted, "onDidUpdateSnapshot", u) # {}
        /\ Has(models, u) /\ getValueLength(getValue(models[u])) = 0
        /\ Has(snapshots, u) /\ snapshots[u].version = models[u].versionId
        /\ FilePlaces(snapshots[u]) = {1}
        /\ snapshots[u].symbols[1].range = Range(1, 1, 1, 1)

\* C19's other case: the snapshot of a document of several lines, the last
\* one empty, has just been stored
C19_WitnessLines ==
    \E u \in Uris :
        /\ EventsOf(emitted, "onDidUpdateSnapshot", u) # {}
        /\ Has(models, u) /\ Has(snapshots, u)
        /\ snapshots[u].version = models[u].versionId
        /\ DocumentEnd(getValue(models[u])) = [lineNumber |-> 3, column |-> 1]
        /\ snapshots[u].symbols[1].range = Range(1, 1, 3, 1)

\* position (l1, c1) is at or before position (l2, c2)
AtOrBefore(l1, c1, l2, c2) == l1 < l2 \/ (l1 = l2 /\ c1 <= c2)

\* range inner lies within range outer
ContainsRange(outer, inner) ==
    /\ AtOrBefore(outer.startLineNumber, outer.startColumn,
                  inner.startLineNumber, inner.startColumn)
    /\ AtOrBefore(inner.endLineNumber, inner.endColumn,
                  outer.endLineNumber, outer.endColumn)

\* C20: in every snapshot that is stored, a symbol that is not the File
\* symbol and has a containerId has its container among the symbols of the
\* same snapshot, and its range lies within the container's range.
\* The code breaks it: the range of a class is the span of its name on the
\* line of the `class` keyword, and the range of a method is the span of its
\* name on its own line, so no method lies within its class.
C20_WithinContainer ==
    [][\A u \in Uris :
          EventsOf(emitted', "onDidUpdateSnapshot", u) # {} =>
             \A k \in DOMAIN snapshots'[u].symbols :
                (/\ snapshots'[u].symbols[k].kind # KindFile
                 /\ snapshots'[u].symbols[k].containerId # Undefined)
                => /\ SymbolsOf(snapshots'[u], snapshots'[u].symbols[k].containerId) # {}
                   /\ \A c \in SymbolsOf(snapshots'[u], snapshots'[u].symbols[k].containerId) :
                         ContainsRange(c.range, snapshots'[u].symbols[k].range)]_vars

\* the kinds of line C21 speaks of, and one line of each kind
LineKinds == {"class", "function", "method", "blank", "other"}
W_Foo == <<"F","o","o">>
W_f == <<"f">>
W_bar == <<"b","a","r">>
LineOf(kind) ==
    CASE kind = "class" -> <<"c","l","a","s","s"," ","F","o","o"," ","{">>
      [] kind = "function" -> <<"f","u","n","c","t","i","o","n"," ","f","(",")"," ","{","}">>
      [] kind = "method" -> <<" "," ","b","a","r","(",")"," ","{","}">>
      [] kind = "blank" -> <<" "," ">>
      [] kind = "other" -> <<"}">>

\* the documents of at most MaxScanLines lines of those kinds
MaxScanLines == 3
Scripts == UNION {[1..n -> LineKinds] : n \in 1..MaxScanLines}

RECURSIVE JoinLines(_, _)
\* the lines of script from line i on, joined by line feeds
JoinLines(script, i) ==
    IF i > Len(script) THEN << >>
    ELSE LineOf(script[i]) \o (IF i < Len(script) THEN <<LF>> ELSE << >>) \o JoinLines(script, i + 1)

RECURSIVE Enclosing(_, _, _)
\* the id of the class that encloses line i of script, as C21 tracks it: the
\* last class line before i, unless a blank line came after it
Enclosing(uri, script, i) ==
    IF i = 1 THEN Undefined
    ELSE IF script[i - 1] = "class" THEN buildSymbolId(uri, W_Foo, i - 1)
    ELSE IF script[i - 1] = "blank" THEN Undefined
    ELSE Enclosing(uri, script, i - 1)

\* what C21 expects line i of script to yield
Expected(uri, script, i) ==
    CASE script[i] = "class" ->
            <<[kind |-> KindClass, name |-> W_Foo, containerId |-> Undefined, line |-> i]>>
      [] script[i] = "function" ->
            <<[kind |-> KindFunction, name |-> W_f, containerId |-> Undefined, line |-> i]>>
      [] script[i] = "method" /\ Enclosing(uri, script, i) # Undefined ->
            <<[kind |-> KindMethod, name |-> W_bar,
               containerId |-> Enclosing(uri, script, i), line |-> i]>>
      [] OTHER -> << >>

\* the kind, name, container and line of each symbol, in order
Outline(symbols) ==
    [k \in DOMAIN symbols |->
        [kind |-> symbols[k].kind, name |-> symbols[k].name,
         containerId |-> symbols[k].containerId,
         line |-> symbols[k].range.startLineNumber]]

\* buildSnapshot yields, after the File symbol, what C21 expects of each
\* line of each script, in line order
ScansAsExpected ==
    \A uri \in Uris, script \in Scripts :
        Outline(Tail(buildSnapshot(uri, "", 0, [chars |-> JoinLines(script, 1), pad |-> 0]).symbols))
           = Flatten([i \in DOMAIN script |-> Expected(uri, script, i)])

\* C21: extraction tracks one enclosing class while it scans the lines in
\* order.  A class line sets it to the class's id, a blank line resets it,
\* a function line leaves it; a method-like line yields a Method symbol
\* whose containerId is the enclosing class's id exactly when there is one.
\* It is stated of every document of Scripts, and of every snapshot stored
\* of a document whose first line declares a class and whose second line is
\* method-like: its symbols are the File, the Class and the Method, in
\* that order, the Method's containerId being the Class's id.
C21_EnclosingClass ==
    [][/\ ScansAsExpected
       /\ \A u \in Uris :
             (/\ EventsOf(emitted', "onDidUpdateSnapshot", u) # {}
              /\ Len(splitLines(getValue(models[u]))) >= 2
              /\ classMatch(splitLines(getValue(models[u]))[1]) # Undefined
              /\ methodMatch(splitLines(getValue(models[u]))[2]) # Undefined)
             => /\ Len(snapshots'[u].symbols) >= 3
                /\ snapshots'[u].symbols[1].kind = KindFile
                /\ snapshots'[u].symbols[2].kind = KindClass
                /\ snapshots'[u].symbols[2].name = classMatch(splitLines(getValue(models[u]))[1])
                /\ snapshots'[u].symbols[3].kind = KindMethod
                /\ snapshots'[u].symbols[3].name = methodMatch(splitLines(getValue(models[u]))[2])
                /\ snapshots'[u].symbols[3].containerId = snapshots'[u].symbols[2].id]_vars

\* C21's case: the snapshot of a class followed directly by a method has
\* just been stored
C21_Witness ==
    \E u \in Uris :
        /\ EventsOf(emitted, "onDidUpdateSnapshot", u) # {}
        /\ Has(snapshots, u) /\ Len(snapshots[u].symbols) = 3
        /\ snapshots[u].symbols[2].kind = KindClass
        /\ snapshots[u].symbols[3].kind = KindMethod
        /\ snapshots[u].symbols[3].containerId = snapshots[u].symbols[2].id
        /\ snapshots[u].symbols[3].range.startLineNumber
              = snapshots[u].symbols[2].range.startLineNumber + 1

\* the symbols without their ids: what the text alone shows of them
Shapes(symbols) ==
    [k \in DOMAIN symbols |->
        [name |-> symbols[k].name, kind |-> symbols[k].kind, range |-> symbols[k].range]]

\* the documents a snapshot of file u can have been taken of
TakenOf(u, snapshot) ==
    {t \in DocumentIds : Shapes(snapshotTable[u, t]) = Shapes(snapshot.symbols)}

SuccessfulPass(u) == PassRuns(u) /\ Has(models, u) /\ models' = models

\* C23: a successful recomputation stores the new snapshot and then fires
\* onDidUpdateSnapshot exactly once.  At that event, and at every event the
\* graph's rebuild and the history's diff fire in answer to it, getSnapshot
\* returns the snapshot of this recomputation; the history remembers that
\* snapshot, and the events it records carry its version.
C23_StoredBeforeFired ==
    [][\A u \in Uris :
          SuccessfulPass(u) =>
             /\ Cardinality(EventsOf(emitted', "onDidUpdateSnapshot", u)) = 1
             /\ emitted'[1].event = "onDidUpdateSnapshot"
             /\ getSnapshot(snapshots', u) = <<modelSnapshot(u, models[u])>>
             /\ \A k \in DOMAIN emitted' :
                   emitted'[k].uri = u => emitted'[k].snapshot = getSnapshot(snapshots', u)
             /\ Has(perFile', u) /\ perFile'[u].lastSnapshot = getSnapshot(snapshots', u)
             /\ \A k \in DOMAIN NewEvents(u) :
                   NewEvents(u)[k].snapshot.version = snapshots'[u].version]_vars

\* C23's case: a recomputation has just replaced a snapshot by one of a
\* later version, and the graph and the history answered its event
C23_Witness ==
    \E u \in Uris :
        /\ EventsOf(emitted, "onDidUpdateSnapshot", u) # {}
        /\ EventsOf(emitted, "onDidUpdateGraphForUri", u) # {}
        /\ EventsOf(emitted, "onDidRecordEvent", u) # {}
        /\ Has(snapshots, u) /\ snapshots[u].version > 1
        /\ \A k \in DOMAIN emitted : emitted[k].snapshot = <<snapshots[u]>>

\* what a recomputation leaves: the graph with its edge indexes, the history
\* log and the event counter
Outcome(r) == <<r.graph, r.perFile, r.nextEventId>>

\* C24: the graph's rebuild and the history's diff do not interact.  For
\* every onDidUpdateSnapshot of a successful pass, the rebuild run before the
\* diff and the diff run before the rebuild leave the same graph, with the
\* same edge indexes, the same history log and the same event counter:
\* whichever order the listeners ran in, the step ends in the state that
\* each of the two orders leads to.
C24_SubscribersCommute ==
    [][\A u \in Uris :
          SuccessfulPass(u) =>
             \A order \in ListenerOrders :
                Outcome(recomputed(u, order)) = <<graph', perFile', NEXT_EVENT_ID'>>]_vars

\* C24's case: in the pass that has just run the history recorded events
\* before the graph replaced one edge set of the file by another
C24_Witness ==
    \E u \in Uris : \E i, j \in DOMAIN emitted :
        /\ i < j
        /\ emitted[i].event = "onDidRecordEvent" /\ emitted[i].uri = u
        /\ emitted[j].event = "onDidUpdateGraphForUri" /\ emitted[j].uri = u
        /\ getEdgesForFile(emitted[i].graph, u) # getEdgesForFile(emitted[j].graph, u)
        /\ getEdgesForFile(emitted[j].graph, u) = getEdgesForFile(graph, u)

\* a supported document is open and the indexer has no snapshot of it yet
Awaited(u) == Has(models, u) /\ isSupported(models[u]) /\ ~Has(snapshots, u)

\* the snapshot of the document has just been stored and announced
Announced(u) == Has(snapshots, u) /\ EventsOf(emitted, "onDidUpdateSnapshot", u) # {}

\* C25: a supported document that is observed, open at construction or
\* added later, has a recomputation scheduled from then on without any
\* content change; unless the document is removed, the snapshot eventually
\* exists and onDidUpdateSnapshot fires for it.  Content changes stop at
\* version MaxVersion.
C25_EventuallySnapshot ==
    /\ [](\A u \in Uris : Awaited(u) => timers[u] > 0)
    /\ \A u \in Uris : Awaited(u) ~> (~Has(models, u) \/ Announced(u))

\* C25's case: a document has its snapshot while it is still at version 1:
\* no content change came before the pass, and no timeout is left
C25_Witness ==
    \E u \in Uris :
        /\ Announced(u)
        /\ Has(models, u) /\ models[u].versionId = 1
        /\ snapshots[u].version = 1
        /\ timers[u] = 0
        /\ Has(perFile, u) /\ perFile[u].lastSnapshot = <<snapshots[u]>>

\* the declared symbols (not the File symbol) of a snapshot named name
DeclaredAs(snapshot, name) ==
    {snapshot.symbols[k] :
        k \in {j \in DOMAIN snapshot.symbols :
                  snapshot.symbols[j].kind # KindFile /\ snapshot.symbols[j].name = name}}

\* symbol s of snapshot P is symbol t of snapshot N one line further down:
\* the name is declared once in each snapshot
MovedDown(P, N, s, t) ==
    /\ DeclaredAs(P, s.name) = {s}
    /\ DeclaredAs(N, s.name) = {t}
    /\ t.kind = s.kind
    /\ t.range.startLineNumber = s.range.startLineNumber + 1

Within(r, p) ==
    /\ AtOrBefore(r.startLineNumber, r.startColumn, p.lineNumber, p.column)
    /\ AtOrBefore(p.lineNumber, p.column, r.endLineNumber, r.endColumn)

\* the 0-based offsets of the occurrences of name in a text: the name as a
\* whole identifier, then optional white space, then "("
Occurrences(text, name) ==
    {i - 1 : i \in {j \in 1..Len(text.chars) : CallMatchEnd(text.chars, name, j) # 0}}

\* the ids of the symbols that enclose the position of an offset: the
\* symbols other than the File whose range holds it, or else the File
Sources(symbols, text, offset) ==
    LET holders == {k \in DOMAIN symbols :
                       /\ symbols[k].kind # KindFile
                       /\ Within(symbols[k].range, getPositionAt(text, offset))}
    IN  IF holders # {} THEN {symbols[k].id : k \in holders}
        ELSE {symbols[k].id : k \in {j \in DOMAIN symbols : symbols[j].kind = KindFile}}

\* the (from, to) pairs C27 asks for: from each source that encloses an
\* occurrence of a name to each Function or Method of that name
CallPairs(symbols, text) ==
    UNION {UNION {Sources(symbols, text, o) \X {symbols[c].id} :
                     o \in Occurrences(text, symbols[c].name)} :
              c \in {k \in DOMAIN symbols :
                        symbols[k].kind = KindFunction \/ symbols[k].kind = KindMethod}}

\* the edges are Call edges, one for each pair C27 asks for and no other
OnePerPair(symbols, text, edges) ==
    /\ \A k \in DOMAIN edges : edges[k].kind = GraphEdgeKindCall
    /\ \A k, l \in DOMAIN edges :
          (edges[k].from = edges[l].from /\ edges[k].to = edges[l].to) => k = l
    /\ {<<edges[k].from, edges[k].to>> : k \in DOMAIN edges} = CallPairs(symbols, text)

\* a function that calls another one twice, and two functions of one name,
\* one calling it
CallTexts ==
    { [chars |-> <<"f","u","n","c","t","i","o","n"," ","a","(",")","{"," ","b","(",")",";"," ","b","(",")",";"," ","}",LF,"f","u","n","c","t","i","o","n"," ","b","(",")","{","}">>, pad |-> 0],
      [chars |-> <<"f","u","n","c","t","i","o","n"," ","b","(",")","{","}",LF,"f","u","n","c","t","i","o","n"," ","b","(",")","{"," ","b","(",")",";"," ","}">>, pad |-> 0] }

\* computeIntraFileCallEdges gives one edge per pair on those texts
OnePerPairOnCallTexts ==
    \A uri \in Uris, text \in CallTexts :
        OnePerPair(buildSnapshot(uri, "", 0, text).symbols, text,
                   computeIntraFileCallEdges(buildSnapshot(uri, "", 0, text), text))

\* C27: the edge set one rebuild computes has exactly one Call edge (S, c)
\* for every symbol S that encloses an occurrence of a called name and every
\* Function or Method c of that name, and no two of its edges have the same
\* from and to, however many occurrences there are.  It is stated of every
\* rebuild of the document's graph and of computeIntraFileCallEdges on the
\* texts of CallTexts.
C27_OneEdgePerCandidate ==
    [][/\ OnePerPairOnCallTexts
       /\ \A u \in Uris :
             EventsOf(emitted', "onDidUpdateGraphForUri", u) # {} =>
                OnePerPair(snapshots'[u].symbols, getValue(models[u]),
                           getEdgesForFile(graph', u))]_vars

\* C27's case: the rebuild that has just run found the name b twice, in a
\* call outside every symbol and in b's declaration
C27_Witness ==
    \E u \in Uris :
        /\ EventsOf(emitted, "onDidUpdateGraphForUri", u) # {}
        /\ Has(snapshots, u) /\ Has(models, u)
        /\ snapshots[u].version = models[u].versionId
        /\ \E c \in DOMAIN snapshots[u].symbols :
              /\ snapshots[u].symbols[c].kind = KindFunction
              /\ Cardinality(Occurrences(getValue(models[u]), snapshots[u].symbols[c].name)) = 2
              /\ Len(getCallers(graph, snapshots[u].symbols[c].id)) = 2
              /\ \E k \in DOMAIN getCallers(graph, snapshots[u].symbols[c].id) :
                    getCallers(graph, snapshots[u].symbols[c].id)[k].from
                       = snapshots[u].symbols[1].id

\* C28: a tracked supported document that has a snapshot and no timeout
\* armed has the snapshot of its current version: no content change is left
\* without a recomputation scheduled for it.
\* The code breaks it: the content listener schedules nothing while the
\* document's language is unsupported, and nothing is scheduled when the
\* language becomes supported again, so a change made meanwhile is never
\* recomputed.
C28_SnapshotCurrent ==
    \A u \in Uris :
        (/\ Has(models, u) /\ isSupported(models[u])
         /\ Has(recomputeSchedulers, u)
         /\ Has(snapshots, u)
         /\ timers[u] = 0)
        => snapshots[u].version = models[u].versionId

\* C29: in every reachable state, after skipped and failed rebuilds too, the
\* caller index and the callee index mirror each other: an edge is listed
\* under its from in the callee index exactly when it is listed under its
\* to in the caller index, and neither index lists an edge twice.
C29_IndexesMirror ==
    /\ NoTwinEdges
    /\ \A id \in DOMAIN graph.outgoingEdges :
          \A k \in DOMAIN getCallees(graph, id) :
             /\ getCallees(graph, id)[k].from = id
             /\ getCallees(graph, id)[k] \in Elems(getCallers(graph, getCallees(graph, id)[k].to))
    /\ \A id \in DOMAIN graph.incomingEdges :
          \A k \in DOMAIN getCallers(graph, id) :
             /\ getCallers(graph, id)[k].to = id
             /\ getCallers(graph, id)[k] \in Elems(getCallees(graph, getCallers(graph, id)[k].from))

\* C29's case: a rebuild has just failed for a file whose edges were in the
\* indexes; the file's edge set is as it was and the indexes have let go of
\* its edges, both of them
C29_Witness ==
    \E u \in Uris :
        /\ EventsOf(emitted, "debug: Failed to rebuild graph for", u) # {}
        /\ getEdgesForFile(graph, u) # << >>
        /\ \A k \in DOMAIN getEdgesForFile(graph, u) :
              /\ Has(graph.outgoingEdges, getEdgesForFile(graph, u)[k].from)
              /\ Has(graph.incomingEdges, getEdgesForFile(graph, u)[k].to)
              /\ getCallees(graph, getEdgesForFile(graph, u)[k].from) = << >>
              /\ getCallers(graph, getEdgesForFile(graph, u)[k].to) = << >>

\* C29's other case: a rebuild has just been skipped for a document over
\* the size ceiling, and the indexes hold the edges of the snapshot before
C29_WitnessSkipped ==
    \E u \in Uris :
        /\ EventsOf(emitted, "onDidUpdateSnapshot", u) # {}
        /\ EventsOf(emitted, "onDidUpdateGraphForUri", u) = {}
        /\ EventsOf(emitted, "debug: Failed to rebuild graph for", u) = {}
        /\ getEdgesForFile(graph, u) # << >>
        /\ \A k \in DOMAIN getEdgesForFile(graph, u) :
              getEdgesForFile(graph, u)[k]
                 \in Elems(getCallers(graph, getEdgesForFile(graph, u)[k].to))

\* the positions of the characters of a text and of its end
PositionsIn(text) == {getPositionAt(text, o) : o \in 0..Len(text.chars)}

\* the two positions next after the end of a range: one column further and
\* one line further
PositionsPast(range) ==
    {[lineNumber |-> range.endLineNumber, column |-> range.endColumn + 1],
     [lineNumber |-> range.endLineNumber + 1, column |-> 1]}

\* C30: getSymbolAtPosition returns the File symbol of the file's snapshot
\* for every position within the File symbol's range, which is every
\* position of the document the snapshot was taken of, and never a Class, a
\* Method or a Function; it returns nothing when the file has no snapshot
\* and when the position is outside the File symbol's range.  The positions
\* asked are those of the open document, which a stale snapshot need not
\* cover, and the two next after the end of the File symbol's range.
C30_FileAtPosition ==
    \A u \in Uris :
        /\ ~Has(snapshots, u) =>
              \A p \in (IF Has(models, u) THEN PositionsIn(getValue(models[u])) ELSE {})
                          \cup {[lineNumber |-> 1, column |-> 1]} :
                 getSymbolAtPosition(snapshots, u, p) = << >>
        /\ Has(snapshots, u) =>
              /\ \A p \in (IF Has(models, u) THEN PositionsIn(getValue(models[u])) ELSE {})
                             \cup PositionsPast(snapshots[u].symbols[1].range) :
                    getSymbolAtPosition(snapshots, u, p) =
                       IF Within(snapshots[u].symbols[1].range, p)
                       THEN <<snapshots[u].symbols[1]>> ELSE << >>
              /\ snapshots[u].symbols[1].kind = KindFile
              /\ (Has(models, u) /\ snapshots[u].version = models[u].versionId) =>
                    \A p \in PositionsIn(getValue(models[u])) :
                       getSymbolAtPosition(snapshots, u, p) = <<snapshots[u].symbols[1]>>

\* C30's case: the file has the snapshot of the open document with a
\* Function in it, and the position asked is the first of the Function's name
C30_Witness ==
    \E u \in Uris :
        /\ Has(snapshots, u) /\ Has(models, u)
        /\ snapshots[u].version = models[u].versionId
        /\ \E k \in DOMAIN snapshots[u].symbols :
              /\ snapshots[u].symbols[k].kind = KindFunction
              /\ [lineNumber |-> snapshots[u].symbols[k].range.startLineNumber,
                  column |-> snapshots[u].symbols[k].range.startColumn]
                    \in PositionsIn(getValue(models[u]))
              /\ getSymbolAtPosition(snapshots, u,
                    [lineNumber |-> snapshots[u].symbols[k].range.startLineNumber,
                     column |-> snapshots[u].symbols[k].range.startColumn])
                    = <<snapshots[u].symbols[1]>>

\* no two symbols of the sequence have the same id
DistinctIds(symbols) ==
    \A i, j \in DOMAIN symbols : symbols[i].id = symbols[j].id => i = j

\* no two symbols other than the File symbol are declared on the same line
OnePerLine(symbols) ==
    \A i, j \in DOMAIN symbols :
        (/\ symbols[i].kind # KindFile /\ symbols[j].kind # KindFile
         /\ symbols[i].range.startLineNumber = symbols[j].range.startLineNumber)
        => i = j

\* the snapshots of the documents of Scripts, where one name is declared on
\* several lines and a declaration stands on line 1, the line of the File
\* symbol's id, have distinct ids and one symbol per line
DistinctOnScripts ==
    \A uri \in Uris, script \in Scripts :
        /\ DistinctIds(buildSnapshot(uri, "", 0, [chars |-> JoinLines(script, 1), pad |-> 0]).symbols)
        /\ OnePerLine(buildSnapshot(uri, "", 0, [chars |-> JoinLines(script, 1), pad |-> 0]).symbols)

\* C31: within one snapshot all symbol ids are pairwise distinct: at most
\* one symbol is declared per line, the ids hold the line, and the File
\* symbol's id is the id of no other symbol.  It is stated of every stored
\* snapshot and of the snapshots of the documents of Scripts.
C31_DistinctIds ==
    /\ DistinctOnScripts
    /\ \A u \in Uris :
          Has(snapshots, u) =>
             /\ DistinctIds(snapshots[u].symbols)
             /\ OnePerLine(snapshots[u].symbols)
             /\ \A k \in DOMAIN snapshots[u].symbols :
                   snapshots[u].symbols[k].id = snapshots[u].symbols[1].id => k = 1

\* C31's case: a stored snapshot has a symbol declared on line 1, the line
\* in the File symbol's id, and another one below it
C31_Witness ==
    \E u \in Uris :
        /\ Has(snapshots, u) /\ Len(snapshots[u].symbols) >= 3
        /\ snapshots[u].symbols[1].kind = KindFile
        /\ snapshots[u].symbols[2].range.startLineNumber = 1
        /\ snapshots[u].symbols[3].range.startLineNumber > 1
        /\ snapshots[u].symbols[2].id # snapshots[u].symbols[1].id
        /\ snapshots[u].symbols[3].id # snapshots[u].symbols[2].id

\* the kinds of event a diff pass of the code can record
RecordedKinds == {SymbolAdded, SymbolRemoved}

\* the symbols snapshot P and snapshot N have under one id have one name
SameNames(P, N) ==
    \A id \in IdsOf(P) \cap IdsOf(N) : NamesOf(P, id) = NamesOf(N, id)

====
